---- MODULE Spec2Model ----
(***************************************************************************)
(* Rule-based form validation: the field registry (FormConnector), the     *)
(* per-field rule engine (Validator) and the orchestrator (V).             *)
(*                                                                         *)
(* The document is a tree of element nodes.  A node is a record; node ids  *)
(* are stable, the sequence `order` lists the ids in document order.       *)
(* JavaScript values are tagged records [t |-> typeof-like tag, v |-> ..]. *)
(* Strings that the rules inspect are sequences of one-character strings;  *)
(* error messages and attribute values are opaque TLA+ strings.            *)
(***************************************************************************)
EXTENDS Integers, Sequences, FiniteSets, TLC

VARIABLES
    dom,            \* node id -> element record (the document under the form)
    order,          \* node ids in document order
    opts,           \* FieldOptions handed to V / FormConnector
    inputElements,  \* FormConnector.inputElements: field name -> node id
    labels,         \* FormConnector.labels: field name -> node id or NoNode
    errorContainers,\* FormConnector.errorContainers: field name -> node id
    validators,     \* V.validators: insertion-ordered list of engines
    rendered,       \* history: node id -> the field whose error text it shows
    hist,           \* history: engines handed out and rules attached so far
    last            \* what the last operation was and what it returned

vars == <<dom, order, opts, inputElements, labels, errorContainers, validators,
          rendered, hist, last>>

-----------------------------------------------------------------------------
(* Bounds of the model *)

MaxRules == 2
MaxCreated == 2

-----------------------------------------------------------------------------
(* JavaScript values *)

NULL == "<null>"
NoAttr == "<no attribute>"
NoNode == 0

StrV(s) == [t |-> "string", v |-> s]
BoolV(b) == [t |-> "boolean", v |-> b]
NumV(n) == [t |-> "number", v |-> n]
NullV == [t |-> "null", v |-> 0]
UndefV == [t |-> "undefined", v |-> 0]
FileListV(n) == [t |-> "filelist", v |-> n]
ArrayV(n) == [t |-> "array", v |-> n]
ArrayLikeV(n) == [t |-> "arraylike", v |-> n]

\* A number is NaN or the exact decimal num / den, den a power of ten.
NaN == [nan |-> TRUE, num |-> 0, den |-> 1]
Num(n, d) == [nan |-> FALSE, num |-> n, den |-> d]
NumLess(a, b) == ~a.nan /\ ~b.nan /\ a.num * b.den < b.num * a.den

Digits == {"0", "1", "2", "3", "4", "5", "6", "7", "8", "9"}
DigitVal(c) == CHOOSE d \in 0..9 : <<"0", "1", "2", "3", "4", "5", "6", "7", "8", "9">>[d + 1] = c

RECURSIVE DigitsEnd(_, _)
DigitsEnd(s, i) == IF i <= Len(s) /\ s[i] \in Digits THEN DigitsEnd(s, i + 1) ELSE i

RECURSIVE DigitsToInt(_, _, _, _)
DigitsToInt(s, i, j, acc) ==
    IF i >= j THEN acc
    ELSE IF s[i] \in Digits THEN DigitsToInt(s, i + 1, j, acc * 10 + DigitVal(s[i]))
    ELSE DigitsToInt(s, i + 1, j, acc)

RECURSIVE Pow10(_)
Pow10(k) == IF k = 0 THEN 1 ELSE 10 * Pow10(k - 1)

\* A conversion of the whole string, like Number(s): digits only
ParseFloatWhole(s) ==
    IF Len(s) > 0 /\ DigitsEnd(s, 1) = Len(s) + 1
    THEN Num(DigitsToInt(s, 1, Len(s) + 1, 0), 1) ELSE NaN

\* parseFloat: optional sign, digits, optional fraction; the longest such
\* prefix is the number, no such prefix is NaN.  (The strings of the model
\* hold no white space and no exponent.)
ParseFloat(s) ==
    LET signed == Len(s) >= 1 /\ s[1] \in {"-", "+"}
        i1 == IF signed THEN 2 ELSE 1
        i2 == DigitsEnd(s, i1)
        hasDot == i2 <= Len(s) /\ s[i2] = "."
        i3 == IF hasDot THEN DigitsEnd(s, i2 + 1) ELSE i2
        nInt == i2 - i1
        nFrac == IF hasDot THEN i3 - (i2 + 1) ELSE 0
        mag == DigitsToInt(s, i1, i3, 0)
    IN  IF nInt = 0 /\ nFrac = 0 THEN NaN
        ELSE Num(IF signed /\ s[1] = "-" THEN 0 - mag ELSE mag, Pow10(nFrac))

\* JavaScript truthiness of a string-or-null error: `if (error)`.
Truthy(e) == e # NULL /\ e # ""

\* a || b on strings
OrElse(a, b) == IF Truthy(a) THEN a ELSE b

-----------------------------------------------------------------------------
(* Error messages (the literals of the source, in ASCII) *)

MsgString == "must be a string"
MsgMin == "minimal length not reached"
MsgMax == "maximal length exceeded"
MsgEmail == "incorrect email"
MsgRequired == "field is required"
MsgNumber == "must be a number"
MsgMinNumber == "value too small"
MsgMaxNumber == "value too large"
MsgPattern == "wrong format"
MsgConfirm == "passwords do not match"
MsgArray == "must be an array"
MsgMinLength == "minimal number of items not reached"
MsgMaxLength == "maximal number of items exceeded"
MsgCustom == "invalid value"
MsgInvalid == "invalid value"

-----------------------------------------------------------------------------
(* The document: element nodes *)

\* An element with every attribute and property the program reads, at the
\* values a fresh element has.
Node0 ==
    [tag |-> "div", type |-> "", parent |-> NoNode,
     id |-> NoAttr, name |-> NoAttr, fieldName |-> NoAttr, htmlFor |-> NoAttr,
     dataField |-> NoAttr, cls |-> {}, text |-> "", display |-> "",
     value |-> <<>>, checked |-> FALSE, files |-> FileListV(0),
     required |-> FALSE, minLength |-> -1, maxLength |-> -1,
     min |-> <<>>, max |-> <<>>, pattern |-> NoAttr,
     valid |-> TRUE, validationMessage |-> ""]

With(n, o) == [k \in DOMAIN n |-> IF k \in DOMAIN o THEN o[k] ELSE n[k]]

Put(m, k, x) == [y \in DOMAIN m \cup {k} |-> IF y = k THEN x ELSE m[y]]
Get(m, k, default) == IF k \in DOMAIN m THEN m[k] ELSE default
EmptyMap == [y \in {} |-> NoNode]

\* getAttribute(..) as a truthy string: present and not empty
HasText(a) == a # NoAttr /\ a # ""

Pos(o, n) == CHOOSE i \in 1..Len(o) : o[i] = n

RECURSIVE IsAncestorOrSelf(_, _, _)
IsAncestorOrSelf(d, a, n) ==
    IF n = NoNode THEN FALSE
    ELSE IF n = a THEN TRUE
    ELSE IsAncestorOrSelf(d, a, d[n].parent)

\* A selector of the two forms the options use: ".class" or "#id".
ClassSel(c) == [k |-> ".", name |-> c]
IdSel(i) == [k |-> "#", name |-> i]
NoSel == [k |-> "", name |-> ""]
Matches(d, n, sel) ==
    IF sel.k = "." THEN sel.name \in d[n].cls
    ELSE sel.k = "#" /\ d[n].id = sel.name

\* The first node of the sequence of ids `o` that satisfies Test, or NoNode.
First(o, Test(_)) ==
    LET hits == {i \in 1..Len(o) : Test(o[i])}
    IN  IF hits = {} THEN NoNode
        ELSE o[CHOOSE i \in hits : \A j \in hits : i <= j]

\* root.querySelector(sel): the first proper descendant in document order
QuerySelector(d, o, root, sel) ==
    LET Test(n) == n # root /\ IsAncestorOrSelf(d, root, n) /\ Matches(d, n, sel)
    IN  First(o, Test)

\* document.querySelector(sel)
DocumentQuerySelector(d, o, sel) ==
    LET Test(n) == Matches(d, n, sel)
    IN  First(o, Test)

\* element.closest(sel): the nearest ancestor-or-self matching sel
RECURSIVE Closest(_, _, _)
Closest(d, n, sel) ==
    IF n = NoNode THEN NoNode
    ELSE IF Matches(d, n, sel) THEN n
    ELSE Closest(d, d[n].parent, sel)

\* element.closest('label')
RECURSIVE ClosestLabel(_, _)
ClosestLabel(d, n) ==
    IF n = NoNode THEN NoNode
    ELSE IF d[n].tag = "label" THEN n
    ELSE ClosestLabel(d, d[n].parent)

\* element.nextElementSibling
NextElementSibling(d, o, n) ==
    LET p == Pos(o, n)
        sibs == {i \in 1..Len(o) : i > p /\ d[o[i]].parent = d[n].parent}
    IN  IF sibs = {} THEN NoNode
        ELSE o[CHOOSE i \in sibs : \A j \in sibs : i <= j]

FormElement(d) == CHOOSE n \in 1..Len(d) : d[n].tag = "form"

InsertAt(o, i, n) == SubSeq(o, 1, i - 1) \o <<n>> \o SubSeq(o, i, Len(o))

\* parent.insertBefore(node, ref): the new node takes id Len(d) + 1
InsertBefore(d, o, node, ref) ==
    [dom |-> Append(d, With(node, [parent |-> d[ref].parent])),
     order |-> InsertAt(o, Pos(o, ref), Len(d) + 1)]

\* parent.appendChild(node): after the last descendant of parent
AppendChild(d, o, node, parent) ==
    LET inside == {i \in 1..Len(o) : IsAncestorOrSelf(d, parent, o[i])}
        lastIn == CHOOSE i \in inside : \A j \in inside : j <= i
    IN  [dom |-> Append(d, With(node, [parent |-> parent])),
         order |-> InsertAt(o, lastIn + 1, Len(d) + 1)]

-----------------------------------------------------------------------------
(* FormConnector *)

Absent == [k |-> "absent", name |-> ""]
DefaultErrorContainer == ClassSel("error-message")

\* constructor: this.options = { errorContainer: '.error-message', ...options }
ConnectorOptions(op) ==
    IF op.errorContainer = Absent
    THEN With(op, [errorContainer |-> DefaultErrorContainer])
    ELSE op

InForm(d, n) == n # FormElement(d) /\ IsAncestorOrSelf(d, FormElement(d), n)

\* First pass of collectFields: every element carrying a field-name
\* attribute, in document order; a later one overwrites an earlier one.
RECURSIVE CollectFieldNamesFirst(_, _, _, _)
CollectFieldNamesFirst(d, o, i, m) ==
    IF i > Len(o) THEN m
    ELSE IF InForm(d, o[i]) /\ HasText(d[o[i]].fieldName) /\ d[o[i]].fieldName \notin DOMAIN m
    THEN CollectFieldNamesFirst(d, o, i + 1, Put(m, d[o[i]].fieldName, o[i]))
    ELSE CollectFieldNamesFirst(d, o, i + 1, m)

RECURSIVE CollectFieldNames(_, _, _, _)
CollectFieldNames(d, o, i, m) ==
    IF i > Len(o) THEN m
    ELSE LET n == o[i]
         IN  IF InForm(d, n) /\ d[n].fieldName # NoAttr /\ HasText(d[n].fieldName)
             THEN CollectFieldNames(d, o, i + 1, Put(m, d[n].fieldName, n))
             ELSE CollectFieldNames(d, o, i + 1, m)

\* input, textarea, select, output: the selector without its :not() parts
IsAnyControl(e) == e.tag \in {"input", "textarea", "select", "output"}

\* input:not([type=submit]):not([type=button]):not([type=reset]), textarea,
\* select, output
IsFormControl(e) ==
    \/ e.tag = "input" /\ e.type \notin {"submit", "button", "reset"}
    \/ e.tag \in {"textarea", "select", "output"}

\* The second pass without `if (input.hasAttribute('field-name')) return`
RECURSIVE CollectByNameOrIdAll(_, _, _, _)
CollectByNameOrIdAll(d, o, i, m) ==
    IF i > Len(o) THEN m
    ELSE LET n == o[i]
             e == d[n]
         IN  IF ~(InForm(d, n) /\ IsFormControl(e))
             THEN CollectByNameOrIdAll(d, o, i + 1, m)
             ELSE IF HasText(e.name) /\ e.name \notin DOMAIN m
             THEN CollectByNameOrIdAll(d, o, i + 1, Put(m, e.name, n))
             ELSE IF HasText(e.id) /\ e.id \notin DOMAIN m
             THEN CollectByNameOrIdAll(d, o, i + 1, Put(m, e.id, n))
             ELSE CollectByNameOrIdAll(d, o, i + 1, m)

\* Second pass of collectFields: the controls without a field-name
\* attribute, under their name if it is free, else under their id if free.
RECURSIVE CollectByNameOrId(_, _, _, _)
CollectByNameOrId(d, o, i, m) ==
    IF i > Len(o) THEN m
    ELSE LET n == o[i]
             e == d[n]
         IN  IF ~(InForm(d, n) /\ IsFormControl(e)) \/ e.fieldName # NoAttr
             THEN CollectByNameOrId(d, o, i + 1, m)
             ELSE IF HasText(e.name) /\ e.name \notin DOMAIN m
             THEN CollectByNameOrId(d, o, i + 1, Put(m, e.name, n))
             ELSE IF HasText(e.id) /\ e.id \notin DOMAIN m
             THEN CollectByNameOrId(d, o, i + 1, Put(m, e.id, n))
             ELSE CollectByNameOrId(d, o, i + 1, m)

CollectFields(d, o) == CollectByNameOrId(d, o, 1, CollectFieldNames(d, o, 1, EmptyMap))

\* formElement.querySelector('label[for="id"]')
LabelFor(d, o, id) ==
    LET Test(n) == InForm(d, n) /\ d[n].tag = "label" /\ d[n].htmlFor = id
    IN  First(o, Test)

ResolveLabel(d, o, n) ==
    LET byFor == IF HasText(d[n].id) THEN LabelFor(d, o, d[n].id) ELSE NoNode
    IN  IF byFor # NoNode THEN byFor ELSE ClosestLabel(d, n)

\* The configured-selector branch for a selector not of the '#id' form:
\*   closest(sel) || parent?.querySelector(sel) || next?.matches(sel) ? next : null
\* The conditional binds weaker than ||, so the whole disjunction is the test
\* and the value is the next element sibling.
ConfiguredContainer(d, o, n, sel) ==
    LET next == NextElementSibling(d, o, n)
        test == \/ Closest(d, n, sel) # NoNode
                \/ d[n].parent # NoNode /\ QuerySelector(d, o, d[n].parent, sel) # NoNode
                \/ next # NoNode /\ Matches(d, next, sel)
    IN  IF test THEN next ELSE NoNode

\* The default convention: parent.querySelector('.error-message'), else the
\* next element sibling if it has the class.
DefaultContainer(d, o, n) ==
    LET parent == d[n].parent
        next == NextElementSibling(d, o, n)
        inParent == IF parent = NoNode THEN NoNode
                    ELSE QuerySelector(d, o, parent, ClassSel("error-message"))
    IN  IF parent = NoNode THEN NoNode
        ELSE IF inParent # NoNode THEN inParent
        ELSE IF next # NoNode /\ "error-message" \in d[next].cls THEN next
        ELSE NoNode

ResolveErrorContainer(d, o, op, n) ==
    LET sel == op.errorContainer
        configured ==
            IF sel.k \notin {".", "#"} THEN NoNode
            ELSE IF sel.k = "#" THEN DocumentQuerySelector(d, o, sel)
            ELSE ConfiguredContainer(d, o, n, sel)
    IN  IF configured # NoNode THEN configured ELSE DefaultContainer(d, o, n)

\* collectLabelsAndErrorContainers, as the three tables it leaves.
CollectLabels(d, o, fields) ==
    [f \in DOMAIN fields |-> ResolveLabel(d, o, fields[f])]

CollectErrorContainers(d, o, op, fields) ==
    LET found == [f \in DOMAIN fields |-> ResolveErrorContainer(d, o, op, fields[f])]
    IN  [f \in {g \in DOMAIN fields : found[g] # NoNode} |-> found[f]]

\* FormConnector.field / getLabel / getErrorContainer / getFields
ConnectorField(fieldName) == Get(inputElements, fieldName, NoNode)

GetLabel(fieldName) == Get(labels, fieldName, NoNode)

GetErrorContainer(d, o, fieldName) ==
    LET cached == Get(errorContainers, fieldName, NoNode)
        sel == ConnectorOptions(opts).errorContainer
    IN  IF cached # NoNode THEN cached
        ELSE IF sel.k = "#" THEN DocumentQuerySelector(d, o, sel)
        ELSE NoNode

\* `return this.inputElements`: the caller holds the connector's own table
GetFieldsShared == [shared |-> TRUE, entries |-> inputElements]

\* getFields: `new Map(this.inputElements)`, a table of its own with the
\* same entries.  A Map object is its entries and whether it is the
\* connector's table itself.
GetFields == [shared |-> FALSE, entries |-> inputElements]

-----------------------------------------------------------------------------
(* Validator: value extraction *)

\* A valid floating-point number in the sense of the number control: the
\* whole string is digits with an optional leading "-" and an optional
\* fraction that has at least one digit.
IsValidFloat(s) ==
    LET i1 == IF Len(s) >= 1 /\ s[1] = "-" THEN 2 ELSE 1
        i2 == DigitsEnd(s, i1)
        hasDot == i2 <= Len(s) /\ s[i2] = "."
        i3 == IF hasDot THEN DigitsEnd(s, i2 + 1) ELSE i2
    IN  /\ i3 = Len(s) + 1
        /\ i2 > i1 \/ hasDot
        /\ hasDot => i3 > i2 + 1

ValueAsNumber(e) == IF IsValidFloat(e.value) THEN ParseFloat(e.value) ELSE NaN

\* form.querySelector('input[type="radio"][name="<name>"]:checked')
CheckedRadio(d, o, name) ==
    LET Test(n) == /\ InForm(d, n)
                   /\ d[n].tag = "input" /\ d[n].type = "radio"
                   /\ d[n].name = name /\ d[n].checked
    IN  First(o, Test)

GetValue(d, o, n) ==
    LET e == d[n]
    IN  IF e.tag = "input" THEN
            IF e.type = "checkbox" THEN BoolV(e.checked)
            ELSE IF e.type = "radio" THEN
                LET name == IF e.name = NoAttr THEN "null" ELSE e.name
                    checkedRadio == CheckedRadio(d, o, name)
                IN  IF checkedRadio # NoNode THEN StrV(d[checkedRadio].value) ELSE NullV
            ELSE IF e.type \in {"number", "range"} THEN NumV(ValueAsNumber(e))
            ELSE IF e.type = "file" THEN e.files
            ELSE StrV(e.value)
        ELSE IF e.tag \in {"textarea", "select"} THEN StrV(e.value)
        ELSE NullV

-----------------------------------------------------------------------------
(* Validator: the rule builder *)

Rule(type, value, error) == [type |-> type, value |-> value, error |-> error]

\* `this.config.rules.unshift(..)`
PushFront(eng, rule) == [eng EXCEPT !.rules = <<rule>> \o @]

Push(eng, rule) == [eng EXCEPT !.rules = Append(@, rule)]

string(eng, error) == Push(eng, Rule("isString", 0, error))
\* min() pushing a rule of type max
minAsMax(eng, count, error) == Push(eng, Rule("max", count, error))
min(eng, count, error) == Push(eng, Rule("min", count, error))
max(eng, count, error) == Push(eng, Rule("max", count, error))
emailAsString(eng, error) == Push(eng, Rule("isString", 0, error))
email(eng, error) == Push(eng, Rule("email", 0, error))
required(eng, error) == Push(eng, Rule("required", 0, error))
number(eng, error) == Push(eng, Rule("isNumber", 0, error))
minNumber(eng, value, error) == Push(eng, Rule("minNumber", value, error))
maxNumber(eng, value, error) == Push(eng, Rule("maxNumber", value, error))
pattern(eng, regex, error) == Push(eng, Rule("pattern", regex, error))
confirm(eng, passwordField, error) == Push(eng, Rule("confirm", passwordField, error))
array(eng, error) == Push(eng, Rule("isArray", 0, error))
minLength(eng, count, error) == Push(eng, Rule("minLength", count, error))
maxLength(eng, count, error) == Push(eng, Rule("maxLength", count, error))
custom(eng, validator, error) == Push(eng, Rule("custom", validator, error))

-----------------------------------------------------------------------------
(* Validator: construction *)

TextTypes == {"text", "password", "email", "search", "tel", "url"}
NumberTypes == {"number", "range"}

\* `if (cond) this.<builder>(..)`: the rules a guarded builder call adds
When(cond, rule) == IF cond THEN <<rule>> ELSE <<>>

\* loadInputConstraints: the rules it pushes, in the order of its statements
LoadInputConstraints(e, vm) ==
    When(e.required, Rule("required", 0, OrElse(vm, MsgRequired)))
    \o When(e.type \in TextTypes /\ e.minLength > 0,
            Rule("min", e.minLength, OrElse(vm, MsgMin)))
    \o When(e.type \in TextTypes /\ e.maxLength > 0,
            Rule("max", e.maxLength, OrElse(vm, MsgMax)))
    \o When(e.type \in NumberTypes /\ e.min # <<>>,
            Rule("minNumber", ParseFloat(e.min), OrElse(vm, MsgMinNumber)))
    \o When(e.type \in NumberTypes /\ e.max # <<>>,
            Rule("maxNumber", ParseFloat(e.max), OrElse(vm, MsgMaxNumber)))
    \o When(e.type \in TextTypes /\ HasText(e.pattern),
            Rule("pattern", e.pattern, OrElse(vm, MsgPattern)))
    \o When(e.type = "email", Rule("email", 0, OrElse(vm, MsgEmail)))

\* loadTextAreaConstraints
LoadTextAreaConstraints(e, vm) ==
    When(e.required, Rule("required", 0, OrElse(vm, MsgRequired)))
    \o When(e.minLength > 0, Rule("min", e.minLength, OrElse(vm, MsgMin)))
    \o When(e.maxLength > 0, Rule("max", e.maxLength, OrElse(vm, MsgMax)))

\* loadConstraintValidation: the per-tag constraints, then `required` once
\* more for input, textarea and select
LoadConstraintValidation(e) ==
    (IF e.tag = "input" THEN LoadInputConstraints(e, e.validationMessage)
     ELSE IF e.tag = "textarea" THEN LoadTextAreaConstraints(e, e.validationMessage)
     ELSE <<>>)
    \o When(e.tag \in {"input", "textarea", "select"} /\ e.required,
            Rule("required", 0, OrElse(e.validationMessage, MsgRequired)))

\* new Validator(element, form, fieldName); oid is the identity of the new
\* object.
NewValidator(d, o, element, fieldName, oid) ==
    [oid |-> oid, fieldName |-> fieldName, element |-> element,
     rules |-> LoadConstraintValidation(d[element]),
     value |-> GetValue(d, o, element)]

-----------------------------------------------------------------------------
(* Validator: rule evaluation *)

\* /^[^\s@]+@[^\s@]+\.[^\s@]+$/.test(s): exactly one "@", something before
\* it, and after it a "." with something on both sides.
EmailTest(s) ==
    \E i \in 1..Len(s) : \E j \in 1..Len(s) :
        /\ s[i] = "@" /\ s[j] = "."
        /\ 1 < i /\ i + 1 < j /\ j < Len(s)
        /\ \A k \in 1..Len(s) : k # i => s[k] # "@"

\* The regular expressions of the model, by source text.
PatLetters == "^[a-z]+$"
PatHasA == "a"
Letters == {"a", "b", "c"}
PatternTest(regex, s) ==
    IF regex = PatLetters THEN Len(s) >= 1 /\ \A k \in 1..Len(s) : s[k] \in Letters
    ELSE \E k \in 1..Len(s) : s[k] = "a"

\* The caller-supplied predicates of the model, by name; each maps a string
\* to true, false or a message.
CustomValidators == {"accept", "reject", "message", "emptyMessage", "nonEmpty"}
CustomMessage == "custom message"
CallCustom(validator, s) ==
    CASE validator = "accept" -> BoolV(TRUE)
      [] validator = "reject" -> BoolV(FALSE)
      [] validator = "message" -> StrV(CustomMessage)
      [] validator = "emptyMessage" -> StrV("")
      [] OTHER -> BoolV(Len(s) > 0)

\* confirmField.value for form.querySelector('[name="<name>"]')
ConfirmField(d, o, name) ==
    LET Test(n) == InForm(d, n) /\ d[n].name = name
    IN  First(o, Test)

ValueProperty(e) ==
    IF e.tag \in {"input", "textarea", "select", "output"} THEN StrV(e.value) ELSE UndefV

\* What checkRule makes of the predicate's result
CustomResult(result, rule) ==
    IF result.t = "string" THEN result.v
    ELSE IF result = BoolV(FALSE) THEN rule.error ELSE NULL

\* case 'custom' without the `typeof this.value !== 'string'` test
CheckCustomAnyValue(value, rule) ==
    CustomResult(CallCustom(rule.value, IF value.t = "string" THEN value.v ELSE <<>>), rule)

\* case 'custom' of checkRule
CheckCustom(value, rule) ==
    IF value.t # "string" THEN rule.error
    ELSE CustomResult(CallCustom(rule.value, value.v), rule)

\* checkRule: the rule's error, or NULL
CheckRule(d, o, value, rule) ==
    CASE rule.type = "isString" ->
            IF value.t # "string" THEN rule.error ELSE NULL
      [] rule.type = "required" ->
            IF \/ value.t \in {"null", "undefined"}
               \/ value = StrV(<<>>)
               \/ value.t = "array" /\ value.v = 0
               \/ value.t = "boolean" /\ ~value.v
               \/ value.t = "filelist" /\ value.v = 0
            THEN rule.error ELSE NULL
      [] rule.type = "min" ->
            IF value.t = "string" /\ Len(value.v) < rule.value THEN rule.error ELSE NULL
      [] rule.type = "max" ->
            IF value.t = "string" /\ Len(value.v) > rule.value THEN rule.error ELSE NULL
      [] rule.type = "email" ->
            IF value.t = "string" /\ ~EmailTest(value.v) THEN rule.error ELSE NULL
      [] rule.type = "isNumber" ->
            IF /\ value.t # "number" \/ value.v.nan
               /\ value.t # "string" \/ ParseFloat(value.v).nan
            THEN rule.error ELSE NULL
      [] rule.type = "minNumber" ->
            LET numValMin == IF value.t = "string" THEN NumV(ParseFloat(value.v)) ELSE value
            IN  IF numValMin.t = "number" /\ NumLess(numValMin.v, rule.value)
                THEN rule.error ELSE NULL
      [] rule.type = "maxNumber" ->
            LET numValMax == IF value.t = "string" THEN NumV(ParseFloat(value.v)) ELSE value
            IN  IF numValMax.t = "number" /\ NumLess(rule.value, numValMax.v)
                THEN rule.error ELSE NULL
      [] rule.type = "pattern" ->
            IF value.t = "string" /\ ~PatternTest(rule.value, value.v) THEN rule.error ELSE NULL
      [] rule.type = "isArray" ->
            IF value.t # "array" THEN rule.error ELSE NULL
      [] rule.type = "minLength" ->
            IF value.t = "array" /\ value.v < rule.value THEN rule.error ELSE NULL
      [] rule.type = "maxLength" ->
            IF value.t = "array" /\ value.v > rule.value THEN rule.error ELSE NULL
      [] rule.type = "confirm" ->
            LET confirmField == ConfirmField(d, o, rule.value)
            IN  IF confirmField # NoNode
                THEN IF ValueProperty(d[confirmField]) # value THEN rule.error ELSE NULL
                ELSE NULL
      [] rule.type = "custom" -> CheckCustom(value, rule)
      [] OTHER -> NULL

\* The loop of validate(): the first truthy error ends it.  `evaluated` is
\* the number of rules checkRule was called on.
RECURSIVE RunRules(_, _, _, _, _)
RulesStep(d, o, value, rules, i, error) ==
    IF Truthy(error) THEN [error |-> error, evaluated |-> i]
    ELSE RunRules(d, o, value, rules, i + 1)

RunRules(d, o, value, rules, i) ==
    IF i > Len(rules) THEN [error |-> NULL, evaluated |-> Len(rules)]
    ELSE RulesStep(d, o, value, rules, i, CheckRule(d, o, value, rules[i]))

\* The tail of validate(): a failing rule's error, else the control's
\* native validity.
ValidateResult(e, value, run) ==
    IF Truthy(run.error)
    THEN [error |-> run.error, value |-> value, evaluated |-> run.evaluated]
    ELSE IF e.tag \in {"input", "textarea", "select"} /\ ~e.valid
    THEN [error |-> OrElse(e.validationMessage, MsgInvalid), value |-> value,
          evaluated |-> run.evaluated]
    ELSE [error |-> NULL, value |-> value, evaluated |-> run.evaluated]

ValidateValue(d, o, eng, value) ==
    ValidateResult(d[eng.element], value, RunRules(d, o, value, eng.rules, 1))

\* Validator.validate(): the result, the refreshed value and the number of
\* rules evaluated.
ValidatorValidate(d, o, eng) == ValidateValue(d, o, eng, GetValue(d, o, eng.element))

-----------------------------------------------------------------------------
(* V: the orchestrator *)

\* The page as V changes it: the nodes, their order, and (history) which
\* field's error text each node shows.
Page(d, o, r) == [dom |-> d, order |-> o, rendered |-> r]

Configured(c) == c # NoAttr /\ c # ""

ErrorClassName == IF Configured(opts.errorClass) THEN opts.errorClass ELSE "error"
ValidClassName == IF Configured(opts.validClass) THEN opts.validClass ELSE "valid"

EngineIndex(vs, fieldName) ==
    LET hits == {i \in 1..Len(vs) : vs[i].fieldName = fieldName}
    IN  IF hits = {} THEN 0 ELSE CHOOSE i \in hits : \A j \in hits : i <= j

Tracked(vs) == {vs[i].fieldName : i \in 1..Len(vs)}

\* V.field(fieldName): throws when the connector does not resolve the name;
\* else registers a new engine on first access and returns the registered one.
FieldReturn(vs, fieldName) ==
    [threw |-> FALSE, validators |-> vs, engine |-> vs[EngineIndex(vs, fieldName)].oid]

\* field() without the `validators.has(fieldName)` test: an engine per call
VFieldFresh(d, o, vs, fieldName, oid) ==
    IF ConnectorField(fieldName) = NoNode
    THEN [threw |-> TRUE, validators |-> vs, engine |-> 0]
    ELSE [threw |-> FALSE,
          validators |-> Append(vs, NewValidator(d, o, ConnectorField(fieldName), fieldName, oid)),
          engine |-> oid]

\* field() without the `if (!element) throw`: an unresolved name is ignored
VFieldSilent(d, o, vs, fieldName, oid) ==
    IF ConnectorField(fieldName) = NoNode
    THEN [threw |-> FALSE, validators |-> vs, engine |-> 0]
    ELSE IF EngineIndex(vs, fieldName) = 0
    THEN FieldReturn(Append(vs, NewValidator(d, o, ConnectorField(fieldName), fieldName, oid)),
                     fieldName)
    ELSE FieldReturn(vs, fieldName)

VField(d, o, vs, fieldName, oid) ==
    IF ConnectorField(fieldName) = NoNode
    THEN [threw |-> TRUE, validators |-> vs, engine |-> 0]
    ELSE IF EngineIndex(vs, fieldName) = 0
    THEN FieldReturn(Append(vs, NewValidator(d, o, ConnectorField(fieldName), fieldName, oid)),
                     fieldName)
    ELSE FieldReturn(vs, fieldName)

\* showError, first half: the classes of the control
ShowClasses(cls) ==
    ((IF Configured(opts.validClass) THEN cls \ {opts.validClass} ELSE cls)
        \cup (IF Configured(opts.invalidClass) THEN {opts.invalidClass} ELSE {}))
        \cup (IF Configured(opts.errorClass) THEN {opts.errorClass} ELSE {"error"})

\* clearError, first half
ClearClasses(cls) ==
    (((IF Configured(opts.errorClass) THEN cls \ {opts.errorClass} ELSE cls \ {"error"})
        \ (IF Configured(opts.invalidClass) THEN {opts.invalidClass} ELSE {}))
        \cup (IF Configured(opts.validClass) THEN {opts.validClass} ELSE {"valid"}))

\* document.createElement('div') with class error-message and data-field
NewContainer(fieldName) ==
    With(Node0, [tag |-> "div", cls |-> {"error-message"}, dataField |-> fieldName])

\* showError, where no container is found: next to the label if the label
\* has a following sibling, else at the end of the control's parent
PlaceContainer(d, o, node, label, labelNext, parent) ==
    IF label # NoNode /\ d[label].parent # NoNode /\ labelNext # NoNode
    THEN InsertBefore(d, o, node, labelNext)
    ELSE IF parent # NoNode THEN AppendChild(d, o, node, parent)
    ELSE [dom |-> Append(d, node), order |-> o]

CreateContainer(d, o, element, fieldName, label) ==
    PlaceContainer(d, o, NewContainer(fieldName), label,
                   IF label = NoNode THEN NoNode ELSE NextElementSibling(d, o, label),
                   d[element].parent)

\* showError, last lines: the text and the display of the container
WriteError(d, o, r, errorContainer, fieldName, error) ==
    Page([d EXCEPT ![errorContainer].text = error, ![errorContainer].display = "block"],
         o, Put(r, errorContainer, fieldName))

WriteNew(made, r, fieldName, error) ==
    WriteError(made.dom, made.order, r, Len(made.dom), fieldName, error)

ShowIn(d, o, r, element, fieldName, error, found) ==
    IF found # NoNode THEN WriteError(d, o, r, found, fieldName, error)
    ELSE WriteNew(CreateContainer(d, o, element, fieldName, GetLabel(fieldName)),
                  r, fieldName, error)

ShowOn(pg, element, fieldName, error) ==
    ShowIn([pg.dom EXCEPT ![element].cls = ShowClasses(@)], pg.order, pg.rendered,
           element, fieldName, error, GetErrorContainer(pg.dom, pg.order, fieldName))

\* V.showError(fieldName, error)
ShowError(pg, fieldName, error) ==
    IF ConnectorField(fieldName) = NoNode THEN pg
    ELSE ShowOn(pg, ConnectorField(fieldName), fieldName, error)

ClearIn(d, o, r, errorContainer) ==
    IF errorContainer = NoNode THEN Page(d, o, r)
    ELSE Page([d EXCEPT ![errorContainer].text = "", ![errorContainer].display = "none"],
              o, [n \in DOMAIN r \ {errorContainer} |-> r[n]])

ClearOn(pg, element, fieldName) ==
    ClearIn([pg.dom EXCEPT ![element].cls = ClearClasses(@)], pg.order, pg.rendered,
            GetErrorContainer(pg.dom, pg.order, fieldName))

\* V.clearError(fieldName)
ClearError(pg, fieldName) ==
    IF ConnectorField(fieldName) = NoNode THEN pg
    ELSE ClearOn(pg, ConnectorField(fieldName), fieldName)

\* `if (error) showError(..) else clearError(..)`
Present(pg, fieldName, error) ==
    IF Truthy(error) THEN ShowError(pg, fieldName, error) ELSE ClearError(pg, fieldName)

\* One field's pass, as validate() and validateField() both run it.
FieldPass(pg, eng, r) ==
    [error |-> r.error,
     engine |-> [eng EXCEPT !.value = r.value],
     page |-> Present(pg, eng.fieldName, r.error)]

RunField(pg, eng) == FieldPass(pg, eng, ValidatorValidate(pg.dom, pg.order, eng))

\* V.validate(): the engines in insertion order
RECURSIVE ValidateLoop(_, _, _, _, _)
\* validate() recording only the failing fields
ValidateStepFailing(vs, i, errors, isValid, r) ==
    ValidateLoop(r.page, [vs EXCEPT ![i] = r.engine], i + 1,
                 IF Truthy(r.error) THEN Put(errors, vs[i].fieldName, r.error) ELSE errors,
                 isValid /\ ~Truthy(r.error))

ValidateStep(vs, i, errors, isValid, r) ==
    ValidateLoop(r.page, [vs EXCEPT ![i] = r.engine], i + 1,
                 Put(errors, vs[i].fieldName, r.error), isValid /\ ~Truthy(r.error))

ValidateLoop(pg, vs, i, errors, isValid) ==
    IF i > Len(vs)
    THEN [page |-> pg, validators |-> vs, isValid |-> isValid, errors |-> errors]
    ELSE ValidateStep(vs, i, errors, isValid, RunField(pg, vs[i]))

EmptyErrors == [f \in {} |-> NULL]

VValidate(pg, vs) == ValidateLoop(pg, vs, 1, EmptyErrors, TRUE)

\* V.validateField(fieldName)
FieldResult(vs, i, r) ==
    [threw |-> FALSE, error |-> r.error, page |-> r.page,
     validators |-> [vs EXCEPT ![i] = r.engine]]

\* validateField() without the `if (!validator) throw`
ValidateEngineLenient(pg, vs, i) ==
    IF i = 0 THEN [threw |-> FALSE, error |-> NULL, page |-> pg, validators |-> vs]
    ELSE FieldResult(vs, i, RunField(pg, vs[i]))

\* validateField() running the pass of validate() over every engine
OneOfAll(vs, i, r) ==
    [threw |-> FALSE, error |-> r.errors[vs[i].fieldName], page |-> r.page,
     validators |-> r.validators]

ValidateEngineAll(pg, vs, i) ==
    IF i = 0 THEN [threw |-> TRUE, error |-> NULL, page |-> pg, validators |-> vs]
    ELSE OneOfAll(vs, i, VValidate(pg, vs))

ValidateEngine(pg, vs, i) ==
    IF i = 0 THEN [threw |-> TRUE, error |-> NULL, page |-> pg, validators |-> vs]
    ELSE FieldResult(vs, i, RunField(pg, vs[i]))

VValidateField(pg, vs, fieldName) == ValidateEngine(pg, vs, EngineIndex(vs, fieldName))

\* V.reset()
RECURSIVE ResetLoop(_, _, _)
ResetLoop(pg, vs, i) ==
    IF i > Len(vs) THEN pg ELSE ResetLoop(ClearError(pg, vs[i].fieldName), vs, i + 1)

VReset(pg, vs) == ResetLoop(pg, vs, 1)

-----------------------------------------------------------------------------
(* The forms and options of the model *)

Elem(tag, parent, o) == With(Node0, [tag |-> tag, parent |-> parent] @@ o)
Input(parent, o) == With(Node0, o @@ [tag |-> "input", type |-> "text", parent |-> parent])
NoMore == [text |-> ""]

\* a control alone in the form: no label, no error container
FormBare ==
    << Elem("div", NoNode, NoMore),
       Elem("form", 1, NoMore),
       Input(2, [name |-> "a"]) >>

\* label, control and error container in one wrapper
FormWrapped ==
    << Elem("div", NoNode, NoMore),
       Elem("form", 1, NoMore),
       Elem("div", 2, NoMore),
       Elem("label", 3, [htmlFor |-> "ia"]),
       Input(3, [id |-> "ia", name |-> "a"]),
       Elem("div", 3, [cls |-> {"error-message"}]) >>

\* a labelled control and a required one, no error container
FormLabelled ==
    << Elem("div", NoNode, NoMore),
       Elem("form", 1, NoMore),
       Elem("label", 2, [htmlFor |-> "ia"]),
       Input(2, [id |-> "ia", name |-> "a"]),
       Input(2, [name |-> "b", required |-> TRUE, valid |-> FALSE]) >>

\* two controls and one error container under the same parent
FormShared ==
    << Elem("div", NoNode, NoMore),
       Elem("form", 1, NoMore),
       Elem("div", 2, NoMore),
       Input(3, [name |-> "a"]),
       Input(3, [name |-> "b"]),
       Elem("div", 3, [cls |-> {"error-message"}]) >>

\* an element with id "errors" outside the form; the control carries a
\* field-name attribute and another name
FormGlobal ==
    << Elem("div", NoNode, NoMore),
       Elem("div", 1, [id |-> "errors"]),
       Elem("form", 1, NoMore),
       Input(3, [fieldName |-> "a", name |-> "c"]) >>


Options0 == [errorContainer |-> Absent, errorClass |-> NoAttr, validClass |-> NoAttr,
             invalidClass |-> NoAttr]
OptionsClasses == With(Options0, [errorClass |-> "is-error", validClass |-> "is-valid",
                                  invalidClass |-> "is-invalid"])
OptionsGlobal == With(Options0, [errorContainer |-> IdSel("errors")])

\* The forms V is built over, each with the options it is given.
Setups ==
    { <<FormBare, Options0>>, <<FormBare, OptionsClasses>>,
      <<FormWrapped, Options0>>, <<FormWrapped, OptionsClasses>>,
      <<FormLabelled, Options0>>, <<FormShared, Options0>>,
      <<FormGlobal, OptionsGlobal>> }

FieldNames == {"a", "b", "c"}

\* The names whose engines receive builder calls; the other engines keep the
\* rules their control's attributes give them.
BuiltNames == {"a"}

\* What the user can leave in a text control: its value and the validity
\* state the browser derives for it.
ControlStates ==
    { [value |-> <<>>, valid |-> TRUE, validationMessage |-> ""],
      [value |-> <<"a", "b">>, valid |-> TRUE, validationMessage |-> ""],
      [value |-> <<"a", "b">>, valid |-> FALSE, validationMessage |-> "native message"] }

\* The builder calls of the model.
BuilderCalls ==
    { [b |-> "required", value |-> 0, error |-> MsgRequired],
      [b |-> "min", value |-> 2, error |-> MsgMin] }

ApplyBuilder(eng, c) ==
    CASE c.b = "required" -> required(eng, c.error)
      [] c.b = "min" -> min(eng, c.value, c.error)
      [] c.b = "max" -> max(eng, c.value, c.error)
      [] c.b = "string" -> string(eng, c.error)
      [] c.b = "email" -> email(eng, c.error)
      [] c.b = "number" -> number(eng, c.error)
      [] c.b = "minNumber" -> minNumber(eng, c.value, c.error)
      [] c.b = "maxNumber" -> maxNumber(eng, c.value, c.error)
      [] c.b = "pattern" -> pattern(eng, c.value, c.error)
      [] c.b = "confirm" -> confirm(eng, c.value, c.error)
      [] c.b = "array" -> array(eng, c.error)
      [] c.b = "minLength" -> minLength(eng, c.value, c.error)
      [] c.b = "maxLength" -> maxLength(eng, c.value, c.error)
      [] OTHER -> custom(eng, c.value, c.error)

\* The control the user edits: the one behind field "a".
Editable == {n \in 1..Len(dom) : IsFormControl(dom[n]) /\ n = ConnectorField("a")}
Created(d) == {n \in 1..Len(d) : d[n].dataField # NoAttr}

-----------------------------------------------------------------------------
(* The orchestrator over a form: new V(form, options), then any calls *)

Last0 == [op |-> "new", name |-> "", threw |-> FALSE, error |-> NULL, isValid |-> TRUE,
          errors |-> EmptyErrors, engine |-> 0, evaluated |-> 0, node |-> NoNode]

Hist0 == [engine |-> EmptyMap, attached |-> [f \in {} |-> <<>>], nextOid |-> 1]

Construct(form, op) ==
    /\ dom = form
    /\ order = [i \in 1..Len(form) |-> i]
    /\ opts = op
    /\ inputElements = CollectFields(dom, order)
    /\ labels = CollectLabels(dom, order, inputElements)
    /\ errorContainers = CollectErrorContainers(dom, order, ConnectorOptions(opts), inputElements)
    /\ validators = <<>>
    /\ rendered = EmptyMap
    /\ hist = Hist0
    /\ last = Last0

Init == \E s \in Setups : Construct(s[1], s[2])

connector == <<opts, inputElements, labels, errorContainers>>

\* v.field(name)
Field(name) ==
    \E r \in {VField(dom, order, validators, name, hist.nextOid)} :
        /\ validators' = r.validators
        /\ hist' = IF r.threw \/ r.engine = 0 THEN hist
                   ELSE IF name \in DOMAIN hist.engine
                   THEN [hist EXCEPT !.nextOid = @ + Len(r.validators) - Len(validators)]
                   ELSE [engine |-> Put(hist.engine, name, r.engine),
                         attached |-> Put(hist.attached, name,
                                          r.validators[EngineIndex(r.validators, name)].rules),
                         nextOid |-> hist.nextOid + 1]
        /\ last' = With(Last0, [op |-> "field", name |-> name, threw |-> r.threw,
                                engine |-> r.engine])
        /\ UNCHANGED <<dom, order, rendered, connector>>

\* a builder call on an engine that field(name) has returned
Attach(name, c) ==
    \E i \in {EngineIndex(validators, name)} :
        /\ i # 0
        /\ Len(validators[i].rules) < MaxRules
        /\ \E eng \in {ApplyBuilder(validators[i], c)} :
            /\ validators' = [validators EXCEPT ![i] = eng]
            /\ hist' = [hist EXCEPT !.attached[name] = Append(@, eng.rules[Len(eng.rules)])]
            /\ last' = With(Last0, [op |-> "attach", name |-> name, engine |-> eng.oid])
        /\ UNCHANGED <<dom, order, rendered, connector>>

\* the user edits a control
SetControl(n, st) ==
    /\ dom[n].value # st.value \/ dom[n].valid # st.valid
    /\ dom' = [dom EXCEPT ![n] = With(@, st)]
    /\ last' = With(Last0, [op |-> "set"])
    /\ UNCHANGED <<order, validators, rendered, hist, connector>>

\* v.validate()
Validate ==
    \E r \in {VValidate(Page(dom, order, rendered), validators)} :
        /\ Cardinality(Created(r.page.dom)) <= MaxCreated
        /\ dom' = r.page.dom
        /\ order' = r.page.order
        /\ rendered' = r.page.rendered
        /\ validators' = r.validators
        /\ last' = With(Last0, [op |-> "validate", isValid |-> r.isValid,
                                errors |-> r.errors])
        /\ UNCHANGED <<hist, connector>>

\* v.validateField(name)
ValidateField(name) ==
    \E r \in {VValidateField(Page(dom, order, rendered), validators, name)} :
        /\ Cardinality(Created(r.page.dom)) <= MaxCreated
        /\ dom' = r.page.dom
        /\ order' = r.page.order
        /\ rendered' = r.page.rendered
        /\ validators' = r.validators
        /\ last' = With(Last0, [op |-> "validateField", name |-> name,
                                threw |-> r.threw, error |-> r.error])
        /\ UNCHANGED <<hist, connector>>

\* v.reset()
Reset ==
    \E pg \in {VReset(Page(dom, order, rendered), validators)} :
        /\ dom' = pg.dom
        /\ order' = pg.order
        /\ rendered' = pg.rendered
        /\ last' = With(Last0, [op |-> "reset"])
        /\ UNCHANGED <<validators, hist, connector>>

Next ==
    \/ \E name \in FieldNames : Field(name)
    \/ \E name \in BuiltNames : \E c \in BuilderCalls : Attach(name, c)
    \/ \E n \in Editable : \E st \in ControlStates : SetControl(n, st)
    \/ Validate
    \/ \E name \in FieldNames : ValidateField(name)
    \/ Reset

Spec == Init /\ [][Next]_vars

-----------------------------------------------------------------------------
(* Properties of the orchestrator *)

Control(fieldName) == dom[ConnectorField(fieldName)]
Shown(fieldName) == {n \in DOMAIN rendered : rendered[n] = fieldName /\ dom[n].text # ""}
Failing(fieldName) ==
    \/ last.op = "validate" /\ fieldName \in DOMAIN last.errors /\ last.errors[fieldName] # NULL
    \/ last.op = "validateField" /\ ~last.threw /\ last.name = fieldName /\ last.error # NULL
Passing(fieldName) ==
    \/ last.op = "validate" /\ fieldName \in DOMAIN last.errors /\ last.errors[fieldName] = NULL
    \/ last.op = "validateField" /\ ~last.threw /\ last.name = fieldName /\ last.error = NULL

\* C2: validate() called twice in a row, with no edit in between, returns the
\* same result and leaves the page as the first call left it: no node is
\* added, so the number of error containers does not grow.
C2_ValidateIdempotent ==
    [][(last.op = "validate" /\ last'.op = "validate")
        => (/\ last'.isValid = last.isValid
            /\ last'.errors = last.errors
            /\ dom' = dom
            /\ order' = order)]_vars

\* C3: once a pass finds a field valid, its control no longer has the error
\* class and no node shows an error text for that field, also when the node
\* that showed it was created by the failing pass.
C3_PassClearsError ==
    \A f \in Tracked(validators) :
        Passing(f) => (ErrorClassName \notin Control(f).cls /\ Shown(f) = {})

\* C4: there is at most one engine per field name; field(name) returns the
\* engine its first call returned, and the rules of that engine are the ones
\* it was built with followed by every rule attached since, in call order.
C4_OneEnginePerName ==
    /\ \A i, j \in 1..Len(validators) :
            validators[i].fieldName = validators[j].fieldName => i = j
    /\ Tracked(validators) = DOMAIN hist.engine
    /\ \A i \in 1..Len(validators) :
            /\ validators[i].oid = hist.engine[validators[i].fieldName]
            /\ validators[i].rules = hist.attached[validators[i].fieldName]
    /\ (last.op = "field" /\ ~last.threw) => last.engine = hist.engine[last.name]

\* field("a") called again after two rules were attached through earlier calls
C4_Witness ==
    /\ last.op = "field" /\ last.name = "a" /\ ~last.threw
    /\ EngineIndex(validators, "a") # 0
    /\ Len(validators[EngineIndex(validators, "a")].rules) = 2
    /\ validators[EngineIndex(validators, "a")].rules[1].type = "required"
    /\ validators[EngineIndex(validators, "a")].rules[2].type = "min"
    /\ Len(validators) = 2

\* C5: field(name) throws exactly for the names the connector does not
\* resolve; a throwing call changes no engine and the page, no engine exists
\* for an unresolved name, and validate() reports no entry for it.
C5_UnresolvedFieldThrows ==
    [][/\ last'.op = "field" =>
            /\ last'.threw <=> ConnectorField(last'.name) = NoNode
            /\ last'.threw => (validators' = validators /\ dom' = dom /\ order' = order)
       /\ \A f \in Tracked(validators') : ConnectorField(f) # NoNode
       /\ last'.op = "validate" =>
            \A f \in DOMAIN last'.errors : ConnectorField(f) # NoNode]_vars

\* field(name) has thrown for an unresolved name while other engines exist
C5_Witness ==
    /\ last.op = "field" /\ last.threw
    /\ ConnectorField(last.name) = NoNode
    /\ last.name \notin Tracked(validators)
    /\ validators # <<>>

\* C6: validateField(name) throws exactly when no field(name) call has
\* succeeded before, whether or not the connector resolves the name, and a
\* throwing call changes neither the page nor the engines.
C6_ValidateFieldNeedsField ==
    [][last'.op = "validateField" =>
            /\ last'.threw <=> last'.name \notin DOMAIN hist.engine
            /\ last'.threw => (/\ dom' = dom
                               /\ order' = order
                               /\ rendered' = rendered
                               /\ validators' = validators)]_vars

\* validateField(name) has thrown for a name the connector resolves
C6_Witness ==
    /\ last.op = "validateField" /\ last.threw
    /\ ConnectorField(last.name) # NoNode

\* C7: the errors map of validate() has an entry for exactly the names
\* field() has touched, each entry is what the engine of that name returns,
\* and isValid holds exactly when every entry is null.
C7_ValidateResult ==
    last.op = "validate" =>
        /\ DOMAIN last.errors = Tracked(validators)
        /\ DOMAIN last.errors = DOMAIN hist.engine
        /\ \A i \in 1..Len(validators) :
              last.errors[validators[i].fieldName]
                  = ValidatorValidate(dom, order, validators[i]).error
        /\ last.isValid <=> \A f \in DOMAIN last.errors : last.errors[f] = NULL

\* validate() has reported a failing field while another field of the
\* registry, never touched by field(), has no entry
C7_Witness ==
    /\ last.op = "validate" /\ ~last.isValid
    /\ \E f \in DOMAIN last.errors : last.errors[f] # NULL
    /\ \E k \in DOMAIN inputElements : k \notin DOMAIN last.errors

\* C9: after reset() no tracked field shows the error class or a visible
\* error text.
C9_ResetClearsAll ==
    last.op = "reset" =>
        \A f \in Tracked(validators) :
            /\ ErrorClassName \notin Control(f).cls
            /\ \A n \in DOMAIN rendered :
                  rendered[n] = f => (dom[n].text = "" \/ dom[n].display = "none")

\* C10: after a pass that finds a field failing, its control has the error
\* class and not the valid class; no control ever has both.
C10_ErrorXorValid ==
    \A f \in Tracked(validators) :
        /\ Failing(f) => (ErrorClassName \in Control(f).cls
                          /\ ValidClassName \notin Control(f).cls)
        /\ ~(ErrorClassName \in Control(f).cls /\ ValidClassName \in Control(f).cls)

-----------------------------------------------------------------------------
(* One engine over one control: new Validator(element, form, name), then   *)
(* builder calls, edits of the control and validate()                      *)

EngineValues == { <<>>, <<"a">>, <<"a", "b", "c">> }

EngineBuilderCalls ==
    { [b |-> "required", value |-> 0, error |-> MsgRequired],
      [b |-> "required", value |-> 0, error |-> ""],
      [b |-> "min", value |-> 2, error |-> MsgMin],
      [b |-> "max", value |-> 2, error |-> MsgMax],
      [b |-> "custom", value |-> "reject", error |-> MsgCustom],
      [b |-> "custom", value |-> "emptyMessage", error |-> MsgCustom],
      [b |-> "custom", value |-> "nonEmpty", error |-> MsgCustom] }

EngineInit ==
    /\ dom = FormBare
    /\ order = [i \in 1..Len(FormBare) |-> i]
    /\ opts = Options0
    /\ inputElements = CollectFields(dom, order)
    /\ labels = CollectLabels(dom, order, inputElements)
    /\ errorContainers = CollectErrorContainers(dom, order, ConnectorOptions(opts), inputElements)
    /\ validators = <<NewValidator(dom, order, ConnectorField("a"), "a", 1)>>
    /\ rendered = EmptyMap
    /\ hist = Hist0
    /\ last = Last0

\* validator.<builder>(..)
EngineAttach(c) ==
    /\ Len(validators[1].rules) < MaxRules
    /\ validators' = [validators EXCEPT ![1] = ApplyBuilder(@, c)]
    /\ last' = With(Last0, [op |-> "attach"])
    /\ UNCHANGED <<dom, order, rendered, hist, connector>>

\* the user edits the control
EngineEdit(value) ==
    /\ dom[validators[1].element].value # value
    /\ dom' = [dom EXCEPT ![validators[1].element].value = value]
    /\ last' = With(Last0, [op |-> "set"])
    /\ UNCHANGED <<order, validators, rendered, hist, connector>>

\* validator.validate()
EngineValidate ==
    \E r \in {ValidatorValidate(dom, order, validators[1])} :
        /\ validators' = [validators EXCEPT ![1].value = r.value]
        /\ last' = With(Last0, [op |-> "validator.validate", error |-> r.error,
                                evaluated |-> r.evaluated])
        /\ UNCHANGED <<dom, order, rendered, hist, connector>>

NextValidator ==
    \/ \E c \in EngineBuilderCalls : EngineAttach(c)
    \/ \E value \in EngineValues : EngineEdit(value)
    \/ EngineValidate

SpecValidator == EngineInit /\ [][NextValidator]_vars

\* The rules of the engine that fail on its value
FailingRules(eng) ==
    {i \in 1..Len(eng.rules) : CheckRule(dom, order, eng.value, eng.rules[i]) # NULL}

\* C1: validate() returns the error of the first rule, in insertion order,
\* that fails on the value, and evaluates no rule after that one.
C1_FirstFailingRule ==
    last.op = "validator.validate" =>
        \A k \in FailingRules(validators[1]) :
            (\A j \in FailingRules(validators[1]) : k <= j) =>
                /\ last.error = CheckRule(dom, order, validators[1].value,
                                          validators[1].rules[k])
                /\ last.evaluated = k

-----------------------------------------------------------------------------
(* The connector over a flat form of three elements with any attributes    *)

Markers == {NoAttr, "", "x", "y"}
Names == {NoAttr, "x", "y"}
Ids == {NoAttr, "x", "y"}

FlatForm(e1, e2, e3) ==
    << Elem("div", NoNode, NoMore), Elem("form", 1, NoMore),
       Input(2, e1), Input(2, e2), Input(2, e3) >>

FlatForms ==
    { FlatForm([type |-> t, fieldName |-> f1, name |-> n1, id |-> i1],
               [fieldName |-> f2, name |-> n2, id |-> i2],
               [fieldName |-> f3, name |-> n3, id |-> i3]) :
        t \in {"text", "submit"}, f1 \in Markers, n1 \in Names, i1 \in {NoAttr, "x"},
        f2 \in Markers, n2 \in Names, i2 \in Ids,
        f3 \in {NoAttr, "x"}, n3 \in {NoAttr, "x"}, i3 \in {NoAttr, "y"} }

InitConnector == \E form \in FlatForms : Construct(form, Options0)

\* connector.field(name)
Lookup(name) ==
    /\ last' = With(Last0, [op |-> "connector.field", name |-> name,
                            node |-> ConnectorField(name)])
    /\ UNCHANGED <<dom, order, validators, rendered, hist, connector>>

NextConnector == \E name \in {"x", "y", ""} : Lookup(name)

SpecConnector == InitConnector /\ [][NextConnector]_vars

\* The elements of the form that carry a field-name attribute
Tagged == {n \in 1..Len(dom) : InForm(dom, n) /\ dom[n].fieldName # NoAttr}
KeysOf(n) == {k \in DOMAIN inputElements : inputElements[k] = n}
LastTagged(n) ==
    \A m \in Tagged : dom[m].fieldName = dom[n].fieldName => Pos(order, m) <= Pos(order, n)

\* C8 as stated: every element carrying a field-name marker F is the one
\* field(F) returns, and is registered under no other key.
C8_EveryTaggedResolved ==
    \A n \in Tagged :
        /\ ConnectorField(dom[n].fieldName) = n
        /\ KeysOf(n) \subseteq {dom[n].fieldName}

\* C8: an element carrying a field-name marker is registered under no key
\* but its marker; for a non-empty marker F, field(F) returns an element
\* carrying F, the last such element in document order, whatever the
\* names and ids of the other controls; an element with an empty marker is
\* not registered.
C8_FieldNameDominates ==
    \A n \in Tagged :
        /\ KeysOf(n) \subseteq {dom[n].fieldName}
        /\ dom[n].fieldName = "" => KeysOf(n) = {}
        /\ dom[n].fieldName # "" =>
              /\ ConnectorField(dom[n].fieldName) \in Tagged
              /\ dom[ConnectorField(dom[n].fieldName)].fieldName = dom[n].fieldName
              /\ LastTagged(n) => ConnectorField(dom[n].fieldName) = n

\* field("x") has returned the element tagged x, which has another name and
\* id, although an earlier control has name x and a later one id x
C8_Witness ==
    /\ last.op = "connector.field" /\ last.name = "x" /\ last.node = 4
    /\ dom[4].fieldName = "x" /\ dom[4].name = "y" /\ dom[4].id = "y"
    /\ dom[3].fieldName = NoAttr /\ dom[3].name = "x"
    /\ dom[5].fieldName = NoAttr /\ dom[5].name = NoAttr /\ dom[5].id = "y"

-----------------------------------------------------------------------------
(* The second rule engine: class Validator of core/fields.ts               *)

\* getValue of fields.ts: as in core/validator.ts, but a radio without a
\* name is null and the checked radio is looked up by the name property
FieldsGetValue(d, o, n) ==
    IF d[n].tag = "input" /\ d[n].type = "radio"
    THEN IF ~HasText(d[n].name) THEN NullV
         ELSE IF CheckedRadio(d, o, d[n].name) # NoNode
         THEN StrV(d[CheckedRadio(d, o, d[n].name)].value)
         ELSE NullV
    ELSE GetValue(d, o, n)

\* new Validator(element) of fields.ts: no rule is derived from the control
FieldsNewValidator(d, o, element, fieldName, oid) ==
    [oid |-> oid, fieldName |-> fieldName, element |-> element, rules |-> <<>>,
     value |-> FieldsGetValue(d, o, element)]

\* Number(value) as isNaN and `<` coerce it; an array-like of files or an
\* object has no numeric value, an empty array converts to 0
ToNumber(value) ==
    CASE value.t = "number" -> value.v
      [] value.t = "string" -> ParseFloat(value.v)
      [] value.t = "boolean" -> Num(IF value.v THEN 1 ELSE 0, 1)
      [] value.t = "null" -> Num(0, 1)
      [] value.t = "array" /\ value.v = 0 -> Num(0, 1)
      [] OTHER -> NaN

\* `num` of minNumber and maxNumber: parseFloat of a string, else the value
\* itself, which the comparison coerces
FieldsNum(value) == IF value.t = "string" THEN ParseFloat(value.v) ELSE ToNumber(value)

\* Array.isArray alone, as core/validator.ts has it
HasLengthArrayOnly(value) == value.t = "array"

\* `v && typeof v.length === 'number'`, with Array.isArray and FileList
HasLength(value) ==
    \/ value.t \in {"array", "arraylike", "filelist"}
    \/ value.t = "string" /\ value.v # <<>>

LengthOf(value) == IF value.t = "string" THEN Len(value.v) ELSE value.v

\* checkRule of fields.ts: the rule's error, or NULL
FieldsCheckRule(d, o, element, value, rule) ==
    CASE rule.type = "isString" ->
            IF value.t # "string" THEN rule.error ELSE NULL
      [] rule.type = "required" ->
            IF \/ value.t \in {"null", "undefined"}
               \/ value = StrV(<<>>)
               \/ value.t = "array" /\ value.v = 0
               \/ value.t = "filelist" /\ value.v = 0
            THEN rule.error ELSE NULL
      [] rule.type = "min" ->
            IF value.t = "string" /\ Len(value.v) < rule.value THEN rule.error ELSE NULL
      [] rule.type = "max" ->
            IF value.t = "string" /\ Len(value.v) > rule.value THEN rule.error ELSE NULL
      [] rule.type = "email" ->
            IF value.t = "string" /\ ~EmailTest(value.v) THEN rule.error ELSE NULL
      [] rule.type = "isNumber" ->
            IF value.t = "number" THEN (IF value.v.nan THEN rule.error ELSE NULL)
            ELSE IF value.t = "string"
            THEN (IF ParseFloat(value.v).nan THEN rule.error ELSE NULL)
            ELSE rule.error
      [] rule.type = "minNumber" ->
            IF NumLess(FieldsNum(value), rule.value) THEN rule.error ELSE NULL
      [] rule.type = "maxNumber" ->
            IF NumLess(rule.value, FieldsNum(value)) THEN rule.error ELSE NULL
      [] rule.type = "isArray" ->
            IF value.t = "filelist" THEN (IF value.v > 0 THEN NULL ELSE rule.error)
            ELSE IF ~HasLength(value) THEN rule.error ELSE NULL
      [] rule.type = "minLength" ->
            IF HasLength(value) /\ LengthOf(value) < rule.value THEN rule.error ELSE NULL
      [] rule.type = "maxLength" ->
            IF HasLength(value) /\ LengthOf(value) > rule.value THEN rule.error ELSE NULL
      [] rule.type = "confirm" ->
            IF ~InForm(d, element) THEN rule.error
            ELSE IF ConfirmField(d, o, rule.value) = NoNode THEN rule.error
            ELSE IF ValueProperty(d[ConfirmField(d, o, rule.value)]) # value
            THEN rule.error ELSE NULL
      [] OTHER -> NULL

\* The loop of validate() of fields.ts
RECURSIVE FieldsRunRules(_, _, _, _, _, _)
FieldsRulesStep(d, o, element, value, rules, i, error) ==
    IF Truthy(error) THEN [error |-> error, value |-> value, evaluated |-> i]
    ELSE FieldsRunRules(d, o, element, value, rules, i + 1)

FieldsRunRules(d, o, element, value, rules, i) ==
    IF i > Len(rules) THEN [error |-> NULL, value |-> value, evaluated |-> Len(rules)]
    ELSE FieldsRulesStep(d, o, element, value, rules, i,
                         FieldsCheckRule(d, o, element, value, rules[i]))

\* validate() of fields.ts: refresh the value, then the rules; no native
\* validity is consulted
FieldsValidate(d, o, eng) ==
    FieldsRunRules(d, o, eng.element, FieldsGetValue(d, o, eng.element), eng.rules, 1)

\* patchFileInput: `files` now reads the stored value, null while nothing
\* has been stored
PatchFileInput(e) == [e EXCEPT !.files = NullV]

-----------------------------------------------------------------------------
(* Either rule engine over one control: construction, one builder chain,   *)
(* edits of the control, checkRule and validate()                          *)

Str1 == <<"1">>
Str3 == <<"3">>
Str5 == <<"5">>
StrA == <<"a">>
StrAbc == <<"a", "b", "c">>
StrLong == <<"a", "b", "c", "d", "e">>
Str3x == <<"3", "x">>

NativeValid == [valid |-> TRUE, validationMessage |-> ""]
NativeInvalid == [valid |-> FALSE, validationMessage |-> "native message"]
NativeSilent == [valid |-> FALSE, validationMessage |-> ""]

\* What the user, or a script, can leave in a control of each kind.
TextStates ==
    { [value |-> v] @@ NativeValid : v \in {<<>>, StrA, StrAbc, StrLong, Str1, Str3, Str5, Str3x} }
        \cup { [value |-> v] @@ n : v \in {<<>>, StrAbc, Str3}, n \in {NativeInvalid, NativeSilent} }
NumberStates ==
    { [value |-> v] @@ NativeValid : v \in {<<>>, Str1, Str3, Str5} }
        \cup { [value |-> Str3] @@ NativeInvalid }
CheckStates == { [checked |-> b] : b \in BOOLEAN }
FileLengths == {0, 2, 4}
FileStates ==
    { [files |-> NullV] }
        \cup { [files |-> f] : f \in { FileListV(n) : n \in FileLengths } }
        \cup { [files |-> f] : f \in { ArrayV(n) : n \in FileLengths } }
        \cup { [files |-> f] : f \in { ArrayLikeV(n) : n \in FileLengths } }
NoStates == { NoMore }

StatesOf(e) ==
    IF e.tag \in {"textarea", "select"} THEN TextStates
    ELSE IF e.tag # "input" THEN NoStates
    ELSE IF e.type = "checkbox" THEN CheckStates
    ELSE IF e.type = "file" THEN FileStates
    ELSE IF e.type \in NumberTypes THEN NumberStates
    ELSE TextStates

\* The controls: their tag, type and native constraint attributes.
RuleControls ==
    { [tag |-> "input", type |-> "text"],
      [tag |-> "input", type |-> "number"],
      [tag |-> "input", type |-> "checkbox"],
      [tag |-> "input", type |-> "file"],
      [tag |-> "div"],
      [tag |-> "input", type |-> "text", required |-> TRUE, minLength |-> 2,
       maxLength |-> 4, pattern |-> PatLetters],
      [tag |-> "input", type |-> "email", validationMessage |-> "native message"],
      [tag |-> "input", type |-> "number", min |-> Str1, max |-> Str5, required |-> TRUE],
      [tag |-> "textarea", required |-> TRUE, minLength |-> 2, maxLength |-> 4],
      [tag |-> "select", required |-> TRUE] }

\* The form: the control under its field name, and a second control named p
RuleForm(e) ==
    << Elem("div", NoNode, NoMore), Elem("form", 1, NoMore),
       With(Node0, [parent |-> 2, name |-> "a"] @@ e),
       Input(2, [name |-> "p", value |-> StrAbc]) >>

Call(b, value, error) == [b |-> b, value |-> value, error |-> error]

\* The builder chains, each one statement `engine.x(..).y(..)`
\* array().minLength(a).maxLength(b)
FilesChain(a, b) ==
    <<Call("array", 0, MsgArray), Call("minLength", a, MsgMinLength),
      Call("maxLength", b, MsgMaxLength)>>

\* number().minNumber(lo).maxNumber(hi)
NumberChain(lo, hi) ==
    <<Call("number", 0, MsgNumber), Call("minNumber", Num(lo, 1), MsgMinNumber),
      Call("maxNumber", Num(hi, 1), MsgMaxNumber)>>

\* min(a).max(b)
LengthChain(a, b) == <<Call("min", a, MsgMin), Call("max", b, MsgMax)>>

CoreChains ==
    { <<Call("custom", c, MsgCustom)>> : c \in CustomValidators }
        \cup { <<Call("required", 0, "")>> }
Chains ==
    { <<Call("required", 0, MsgRequired)>>,
      <<Call("confirm", "p", MsgConfirm)>>,
      <<Call("confirm", "q", MsgConfirm)>>,
      <<Call("array", 0, MsgArray)>>,
      <<Call("minLength", 1, MsgMinLength)>>,
      <<Call("maxLength", 3, MsgMaxLength)>>,
      FilesChain(1, 3), FilesChain(0, 2), NumberChain(2, 4), LengthChain(2, 4) }

RECURSIVE ApplyChain(_, _, _)
ApplyChain(eng, chain, i) ==
    IF i > Len(chain) THEN eng ELSE ApplyChain(ApplyBuilder(eng, chain[i]), chain, i + 1)

RuleLast0 == Last0 @@ [calls |-> 0]

\* The form is built, fields.ts patches its file controls, and the engine
\* of one of the two libraries is constructed over the control
RuleInit ==
    \E e \in RuleControls : \E lib \in {"core", "fields"} :
        /\ dom = [n \in 1..4 |->
                    IF lib = "fields" /\ RuleForm(e)[n].type = "file"
                    THEN PatchFileInput(RuleForm(e)[n]) ELSE RuleForm(e)[n]]
        /\ order = <<1, 2, 3, 4>>
        /\ opts = Options0
        /\ inputElements = CollectFields(dom, order)
        /\ labels = CollectLabels(dom, order, inputElements)
        /\ errorContainers =
              CollectErrorContainers(dom, order, ConnectorOptions(opts), inputElements)
        /\ validators = IF lib = "core" THEN <<NewValidator(dom, order, 3, "a", 1)>>
                        ELSE <<FieldsNewValidator(dom, order, 3, "a", 1)>>
        /\ rendered = EmptyMap
        /\ hist = [lib |-> lib, chain |-> <<>>, implicit |-> Len(validators[1].rules)]
        /\ last = RuleLast0

\* engine.x(..).y(..): one chain per engine
RuleChain(chain) ==
    /\ hist.chain = <<>>
    /\ hist.lib = "fields" => chain \notin CoreChains
    /\ validators' = [validators EXCEPT ![1] = ApplyChain(@, chain, 1)]
    /\ hist' = [hist EXCEPT !.chain = chain]
    /\ last' = With(RuleLast0, [op |-> "attach"])
    /\ UNCHANGED <<dom, order, rendered, connector>>

\* the control is edited
RuleEdit(st) ==
    /\ dom[3] # With(dom[3], st)
    /\ dom' = [dom EXCEPT ![3] = With(@, st)]
    /\ last' = With(RuleLast0, [op |-> "set"])
    /\ UNCHANGED <<order, validators, rendered, hist, connector>>

\* The number of calls of the caller's predicate in checkRule
PredicateCalls(value, rule) == IF rule.type = "custom" /\ value.t = "string" THEN 1 ELSE 0

\* checkRule(rule) of core/validator.ts on the value the engine holds
RuleCheck(i) ==
    /\ hist.lib = "core"
    /\ i \in 1..Len(validators[1].rules)
    /\ last' = With(RuleLast0,
                    [op |-> "checkRule", evaluated |-> i,
                     error |-> CheckRule(dom, order, validators[1].value, validators[1].rules[i]),
                     calls |-> PredicateCalls(validators[1].value, validators[1].rules[i])])
    /\ UNCHANGED <<dom, order, validators, rendered, hist, connector>>

\* validate() of core/validator.ts
RuleValidate ==
    /\ hist.lib = "core"
    /\ \E r \in {ValidatorValidate(dom, order, validators[1])} :
        /\ validators' = [validators EXCEPT ![1].value = r.value]
        /\ last' = With(RuleLast0, [op |-> "validator.validate", error |-> r.error,
                                    evaluated |-> r.evaluated])
    /\ UNCHANGED <<dom, order, rendered, hist, connector>>

\* validate() of core/fields.ts
RuleFieldsValidate ==
    /\ hist.lib = "fields"
    /\ \E r \in {FieldsValidate(dom, order, validators[1])} :
        /\ validators' = [validators EXCEPT ![1].value = r.value]
        /\ last' = With(RuleLast0, [op |-> "fields.validate", error |-> r.error,
                                    evaluated |-> r.evaluated])
    /\ UNCHANGED <<dom, order, rendered, hist, connector>>

NextRules ==
    \/ \E chain \in Chains \cup CoreChains : RuleChain(chain)
    \/ \E st \in StatesOf(dom[3]) : RuleEdit(st)
    \/ \E i \in 1..6 : RuleCheck(i)
    \/ RuleValidate
    \/ RuleFieldsValidate

SpecRules == RuleInit /\ [][NextRules]_vars

-----------------------------------------------------------------------------
(* Properties of the rules *)

Held == validators[1].value
CheckedRule == validators[1].rules[last.evaluated]
Validated == last.op \in {"validator.validate", "fields.validate"}

\* null, undefined, the empty string, false, or anything of length 0
IsEmptyValue(value) ==
    \/ value.t \in {"null", "undefined"}
    \/ value = StrV(<<>>)
    \/ value = BoolV(FALSE)
    \/ value.t \in {"array", "filelist", "arraylike"} /\ value.v = 0

\* C11: the required rule of core/validator.ts fails exactly on null,
\* undefined, the empty string, false and every empty array-like value
\* (array, file list, or any object with length 0).
C11_RequiredFailsOnEmpty ==
    (last.op = "checkRule" /\ CheckedRule.type = "required") =>
        (last.error # NULL <=> IsEmptyValue(Held))

\* C12: in both engines a lone confirm(other) rule fails exactly when an
\* element named other exists in the form and its value differs from the
\* field's value; with no such element validate() returns null.
C12_ConfirmOther ==
    (/\ Validated
     /\ Len(validators[1].rules) = 1
     /\ validators[1].rules[1].type = "confirm"
     /\ dom[3].valid) =>
        LET other == ConfirmField(dom, order, validators[1].rules[1].value)
        IN  IF other # NoNode /\ ValueProperty(dom[other]) # Held
            THEN last.error = validators[1].rules[1].error
            ELSE last.error = NULL

\* C13: the custom rule calls the predicate once on a textual value and
\* yields the string it returns, the rule's error if it returns false, and
\* null if it returns true; on any other value the predicate is not called
\* and the rule yields its own error.
C13_CustomRule ==
    (last.op = "checkRule" /\ CheckedRule.type = "custom") =>
        IF Held.t = "string"
        THEN /\ last.calls = 1
             /\ LET result == CallCustom(CheckedRule.value, Held.v)
                IN  /\ result.t = "string" => last.error = result.v
                    /\ result = BoolV(FALSE) => last.error = CheckedRule.error
                    /\ result = BoolV(TRUE) => last.error = NULL
        ELSE last.calls = 0 /\ last.error = CheckedRule.error

\* a predicate has returned a message for a textual value
C13_Witness ==
    /\ last.op = "checkRule" /\ CheckedRule.type = "custom"
    /\ CheckedRule.value = "message"
    /\ Held = StrV(StrAbc)
    /\ last.calls = 1 /\ last.error = CustomMessage

\* C14: on an array-like value that is not a native array (a file list or
\* an object with a length) isArray passes, and minLength(n) and
\* maxLength(n) fail exactly when the length is below and above n.
C14_ArrayLikeAccepted ==
    (last.op = "checkRule" /\ Held.t \in {"arraylike", "filelist"}) =>
        /\ CheckedRule.type = "isArray" => last.error = NULL
        /\ CheckedRule.type = "minLength" =>
              (last.error # NULL <=> Held.v < CheckedRule.value)
        /\ CheckedRule.type = "maxLength" =>
              (last.error # NULL <=> Held.v > CheckedRule.value)

\* The bounds a and b of the chain array().minLength(a).maxLength(b)
FilesBounds == { <<1, 3>>, <<0, 2>> }

C16_CoreFilesChain ==
    (last.op = "validator.validate" /\ dom[3].type = "file" /\ dom[3].valid
        /\ hist.chain = FilesChain(1, 3) /\ Held.t \in {"filelist", "array"}) =>
        last.error = (IF Held.v = 0 THEN MsgArray
                      ELSE IF Held.v > 3 THEN MsgMaxLength ELSE NULL)

\* What string-to-float parsing reads in the strings of the model: the
\* leading digit of the numeric ones
NumericStrings == {Str1, Str3, Str5, Str3x}
Reading(s) == DigitVal(s[1])

NumberChainResult(s, lo, hi) ==
    IF s \notin NumericStrings THEN MsgNumber
    ELSE IF Reading(s) < lo THEN MsgMinNumber
    ELSE IF Reading(s) > hi THEN MsgMaxNumber
    ELSE NULL

NumericControl ==
    dom[3].tag = "input" /\ dom[3].type \in {"number", "text"} /\ hist.implicit = 0

\* C17 as stated: for a numeric control under number().minNumber(lo)
\* .maxNumber(hi), in either engine, a value with no numeric reading yields
\* the number error, one below lo the minNumber error, one above hi the
\* maxNumber error and any other null; a textual value is read with
\* string-to-float parsing.
C17_NumberChainAnyControl ==
    (Validated /\ NumericControl /\ hist.chain = NumberChain(2, 4)) =>
        last.error = NumberChainResult(dom[3].value, 2, 4)

\* C17: the same for every control whose native validity is valid when
\* core/validator.ts validates it; core/fields.ts never consults native
\* validity.
C17_NumberChain ==
    (Validated /\ NumericControl /\ hist.chain = NumberChain(2, 4)
        /\ (hist.lib = "core" => dom[3].valid)) =>
        last.error = NumberChainResult(dom[3].value, 2, 4)

\* the text "3x" has been read as 3 and found in range
C17_Witness ==
    /\ last.op = "validator.validate" /\ NumericControl
    /\ hist.chain = NumberChain(2, 4)
    /\ dom[3].type = "text" /\ dom[3].value = Str3x /\ dom[3].valid
    /\ last.error = NULL

LengthChainResult(value, a, b) ==
    IF value.t # "string" THEN NULL
    ELSE IF Len(value.v) < a THEN MsgMin
    ELSE IF Len(value.v) > b THEN MsgMax
    ELSE NULL

\* C18 as stated: under min(a).max(b) a text shorter than a yields the min
\* error, one longer than b the max error, any other null, and every value
\* that is not a text yields null.
C18_LengthChainAnyControl ==
    (last.op = "validator.validate" /\ hist.implicit = 0
        /\ hist.chain = LengthChain(2, 4)) =>
        last.error = LengthChainResult(Held, 2, 4)

\* C18: the same for every control whose native validity is valid.
C18_LengthChain ==
    (last.op = "validator.validate" /\ hist.implicit = 0
        /\ hist.chain = LengthChain(2, 4) /\ dom[3].valid) =>
        last.error = LengthChainResult(Held, 2, 4)

\* a text of one character has been found too short by min(2)
C18_Witness ==
    /\ last.op = "validator.validate" /\ hist.chain = LengthChain(2, 4)
    /\ dom[3].type = "text" /\ hist.implicit = 0 /\ dom[3].valid
    /\ Held = StrV(StrA)
    /\ last.error = MsgMin

\* Every rule of the engine passes on the value it holds
AllRulesPass ==
    \A i \in 1..Len(validators[1].rules) :
        CheckRule(dom, order, Held, validators[1].rules[i]) = NULL

\* The control exposes a native validity state, and it is invalid
NativelyInvalid == dom[3].tag \in {"input", "textarea", "select"} /\ ~dom[3].valid

\* C19: validate() of core/validator.ts returns null only if every rule
\* passes and the native validity is valid or absent; when every rule passes
\* and the native validity is invalid it returns the native message, or the
\* fallback message if that is empty.
C19_NullOnlyIfAllPass ==
    last.op = "validator.validate" =>
        /\ last.error = NULL => (AllRulesPass /\ ~NativelyInvalid)
        /\ (AllRulesPass /\ NativelyInvalid) =>
              /\ last.error # NULL /\ last.error # ""
              /\ last.error = (IF dom[3].validationMessage # ""
                               THEN dom[3].validationMessage ELSE MsgInvalid)

Count(rules, type) == Cardinality({i \in 1..Len(rules) : rules[i].type = type})

RECURSIVE ChainRules(_, _)
ChainRules(chain, i) ==
    IF i > Len(chain) THEN <<>>
    ELSE <<Rule(IF chain[i].b = "number" THEN "isNumber"
                ELSE IF chain[i].b = "array" THEN "isArray"
                ELSE IF chain[i].b = "string" THEN "isString"
                ELSE chain[i].b,
                chain[i].value, chain[i].error)>> \o ChainRules(chain, i + 1)

IsTextual(e) == e.tag = "input" /\ e.type \in TextTypes
IsNumeric(e) == e.tag = "input" /\ e.type \in NumberTypes
Present01(b) == IF b THEN 1 ELSE 0

\* C20: the rules an engine of core/validator.ts holds are the implicit
\* rules, exactly one for each native constraint of the control, followed
\* by the rules attached through the builder.
C20_ImplicitRulesOnce ==
    hist.lib = "core" =>
        LET e == dom[3]
            implicit == SubSeq(validators[1].rules, 1, hist.implicit)
            control == e.tag \in {"input", "textarea", "select"}
        IN  /\ SubSeq(validators[1].rules, hist.implicit + 1, Len(validators[1].rules))
                  = ChainRules(hist.chain, 1)
            /\ Count(implicit, "required") = Present01(control /\ e.required)
            /\ Count(implicit, "min")
                  = Present01((IsTextual(e) \/ e.tag = "textarea") /\ e.minLength > 0)
            /\ Count(implicit, "max")
                  = Present01((IsTextual(e) \/ e.tag = "textarea") /\ e.maxLength > 0)
            /\ Count(implicit, "minNumber") = Present01(IsNumeric(e) /\ e.min # <<>>)
            /\ Count(implicit, "maxNumber") = Present01(IsNumeric(e) /\ e.max # <<>>)
            /\ Count(implicit, "pattern") = Present01(IsTextual(e) /\ HasText(e.pattern))
            /\ Count(implicit, "email") = Present01(e.tag = "input" /\ e.type = "email")
            /\ Len(implicit) = Count(implicit, "required") + Count(implicit, "min")
                  + Count(implicit, "max") + Count(implicit, "minNumber")
                  + Count(implicit, "maxNumber") + Count(implicit, "pattern")
                  + Count(implicit, "email")

-----------------------------------------------------------------------------
(* The connector over a wrapper with two controls and their neighbours:    *)
(* new FormConnector(form, options), then its getters, the caller's        *)
(* changes to a table getFields() returned, and the page's changes to the  *)
(* document                                                                *)

WrapperClasses == {{}, {"m"}}
SiblingClasses == {{}, {"m"}, {"error-message"}, {"o"}}
LaterClasses == {{}, {"m"}, {"error-message"}}

\* body > (form > div > (span, input a, span, span, input b), div)
ContainerForm(cw, c1, c2, c3, g) ==
    << Elem("div", NoNode, NoMore),
       Elem("form", 1, NoMore),
       Elem("div", 2, [cls |-> cw]),
       Elem("span", 3, [cls |-> c1]),
       Input(3, [name |-> "a"]),
       Elem("span", 3, [cls |-> c2]),
       Elem("span", 3, [cls |-> c3]),
       Input(3, [name |-> "b"]),
       Elem("div", 1, [id |-> g]) >>

ContainerForms ==
    { ContainerForm(cw, c1, c2, c3, g) :
        cw \in WrapperClasses, c1 \in WrapperClasses, c2 \in SiblingClasses,
        c3 \in LaterClasses, g \in {NoAttr, "g"} }

OptionsSelector == With(Options0, [errorContainer |-> ClassSel("m")])
OptionsById == With(Options0, [errorContainer |-> IdSel("g")])

NoTable == [shared |-> FALSE, entries |-> EmptyMap, held |-> FALSE]
ContainerHist0 == [table |-> NoTable, added |-> FALSE]

InitContainers ==
    \E form \in ContainerForms : \E op \in {Options0, OptionsSelector, OptionsById} :
        /\ dom = form
        /\ order = [i \in 1..Len(form) |-> i]
        /\ opts = op
        /\ inputElements = CollectFields(dom, order)
        /\ labels = CollectLabels(dom, order, inputElements)
        /\ errorContainers = CollectErrorContainers(dom, order, ConnectorOptions(opts),
                                                    inputElements)
        /\ validators = <<>>
        /\ rendered = EmptyMap
        /\ hist = ContainerHist0
        /\ last = Last0

LookupNames == {"a", "b", "zz"}

\* connector.getErrorContainer(name)
ErrorContainerOf(name) ==
    /\ last' = With(Last0, [op |-> "getErrorContainer", name |-> name,
                            node |-> GetErrorContainer(dom, order, name)])
    /\ UNCHANGED <<dom, order, validators, rendered, hist, connector>>

\* connector.field(name) and connector.getLabel(name)
FieldOf(name) ==
    /\ last' = With(Last0, [op |-> "connector.field", name |-> name,
                            node |-> ConnectorField(name)])
    /\ UNCHANGED <<dom, order, validators, rendered, hist, connector>>

LabelOf(name) ==
    /\ last' = With(Last0, [op |-> "getLabel", name |-> name, node |-> GetLabel(name)])
    /\ UNCHANGED <<dom, order, validators, rendered, hist, connector>>

\* const fields = connector.getFields()
TakeFields ==
    /\ hist' = [hist EXCEPT !.table = GetFields @@ [held |-> TRUE]]
    /\ last' = With(Last0, [op |-> "getFields"])
    /\ UNCHANGED <<dom, order, validators, rendered, connector>>

\* What a change of the table the caller holds leaves behind: the caller's
\* table has the new entries, and so has the connector's if it is the same
\* object.
ChangeTable(entries) ==
    /\ hist.table.held
    /\ entries # hist.table.entries
    /\ hist' = [hist EXCEPT !.table.entries = entries]
    /\ inputElements' = IF hist.table.shared THEN entries ELSE inputElements
    /\ UNCHANGED <<dom, order, opts, labels, errorContainers, validators, rendered>>

\* fields.set(name, element): a new entry or another element for a name
SetEntry(name, n) ==
    /\ ChangeTable(Put(hist.table.entries, name, n))
    /\ last' = With(Last0, [op |-> "fields.set", name |-> name, node |-> n])

\* fields.delete(name)
DeleteEntry(name) ==
    /\ ChangeTable([k \in DOMAIN hist.table.entries \ {name} |-> hist.table.entries[k]])
    /\ last' = With(Last0, [op |-> "fields.delete", name |-> name])

\* document.body.appendChild(div) with div.id = 'g'
AppendGlobal ==
    /\ ~hist.added
    /\ \E r \in {AppendChild(dom, order, Elem("div", 1, [id |-> "g"]), 1)} :
        /\ dom' = r.dom
        /\ order' = r.order
    /\ hist' = [hist EXCEPT !.added = TRUE]
    /\ last' = With(Last0, [op |-> "appendChild"])
    /\ UNCHANGED <<validators, rendered, connector>>

NextContainers ==
    \/ \E name \in LookupNames : ErrorContainerOf(name)
    \/ \E name \in LookupNames : FieldOf(name)
    \/ \E name \in {"a", "zz"} : LabelOf(name)
    \/ TakeFields
    \/ \E name \in {"a", "zz"} : SetEntry(name, 8)
    \/ \E name \in {"a", "zz"} : DeleteEntry(name)
    \/ AppendGlobal

SpecContainers == InitContainers /\ [][NextContainers]_vars

-----------------------------------------------------------------------------
(* Properties of the connector's containers and tables *)

\* The element the selector designates for control n: an ancestor of n (or n
\* itself) that matches, else a matching descendant of n's parent, else n's
\* next element sibling if it matches, else none.
Designated(d, o, n, sel) ==
    IF Closest(d, n, sel) # NoNode THEN Closest(d, n, sel)
    ELSE IF d[n].parent # NoNode /\ QuerySelector(d, o, d[n].parent, sel) # NoNode
    THEN QuerySelector(d, o, d[n].parent, sel)
    ELSE IF NextElementSibling(d, o, n) # NoNode
            /\ Matches(d, NextElementSibling(d, o, n), sel)
    THEN NextElementSibling(d, o, n)
    ELSE NoNode

AskedContainer ==
    /\ last.op = "getErrorContainer"
    /\ last.name \in DOMAIN inputElements

\* C21: with a selector that is not of the '#id' form, the container of a
\* registered field is the element the selector designates (ancestor, then
\* descendant of the parent, then next sibling); when it designates none,
\* the container is the one the default convention gives, so an element
\* that does not match the selector is never the configured container.
C21_SelectorContainer ==
    (AskedContainer /\ opts.errorContainer.k = ".") =>
        last.node =
            (IF Designated(dom, order, inputElements[last.name], opts.errorContainer) # NoNode
             THEN Designated(dom, order, inputElements[last.name], opts.errorContainer)
             ELSE DefaultContainer(dom, order, inputElements[last.name]))

\* C22: with a selector of the '#id' form, getErrorContainer(name) returns
\* the first element of the document with that id, for every name, and so
\* also an element that joined the document after construction.
C22_GlobalContainer ==
    (last.op = "getErrorContainer" /\ opts.errorContainer.k = "#") =>
        last.node = DocumentQuerySelector(dom, order, opts.errorContainer)

\* C23: adding, deleting or replacing an entry of the table getFields()
\* returned changes neither what field(name) and getLabel(name) return nor
\* the entries of the table a later getFields() returns.
C23_GetFieldsCopy ==
    [][ last'.op \in {"fields.set", "fields.delete"} =>
            /\ \A name \in LookupNames :
                  /\ ConnectorField(name)' = ConnectorField(name)
                  /\ GetLabel(name)' = GetLabel(name)
            /\ GetFields'.entries = GetFields.entries ]_vars

\* the caller has replaced the entry of "a" in the returned table, and
\* field("a") is still the first control
C23_Witness ==
    /\ last.op = "fields.set" /\ last.name = "a"
    /\ hist.table.entries["a"] = 8
    /\ ConnectorField("a") = 5

-----------------------------------------------------------------------------
(* The two connectors over a flat form whose first element is of any kind: *)
(* new FormConnector(form) of either library, then field(name)             *)

\* input[name], textarea[name], select[name] of core/fields.ts
IsNamedControl(e) == e.tag \in {"input", "textarea", "select"} /\ e.name # NoAttr

\* Second pass of collectFields in core/fields.ts: the named controls
\* without a field-name attribute, under their name if it is free.
RECURSIVE FieldsCollectByName(_, _, _, _)
FieldsCollectByName(d, o, i, m) ==
    IF i > Len(o) THEN m
    ELSE IF InForm(d, o[i]) /\ IsNamedControl(d[o[i]]) /\ d[o[i]].fieldName = NoAttr
            /\ HasText(d[o[i]].name) /\ d[o[i]].name \notin DOMAIN m
    THEN FieldsCollectByName(d, o, i + 1, Put(m, d[o[i]].name, o[i]))
    ELSE FieldsCollectByName(d, o, i + 1, m)

FieldsCollectFields(d, o) ==
    FieldsCollectByName(d, o, 1, CollectFieldNames(d, o, 1, EmptyMap))

\* Third pass of collectFields in core/fields.ts: every registered file
\* input is patched.
PatchRegistered(d, m) ==
    [n \in 1..Len(d) |->
        IF (\E k \in DOMAIN m : m[k] = n) /\ d[n].tag = "input" /\ d[n].type = "file"
        THEN PatchFileInput(d[n]) ELSE d[n]]

Kinds ==
    { [tag |-> "input", type |-> "text"], [tag |-> "input", type |-> "file"],
      [tag |-> "input", type |-> "submit"], [tag |-> "input", type |-> "reset"],
      [tag |-> "input", type |-> "button"], [tag |-> "textarea", type |-> ""],
      [tag |-> "select", type |-> ""], [tag |-> "output", type |-> ""],
      [tag |-> "div", type |-> ""] }

RegistryForm(e1, e2, e3) ==
    << Elem("div", NoNode, NoMore), Elem("form", 1, NoMore),
       Elem(e1.tag, 2, e1), Input(2, e2), Input(2, e3) >>

RegistryForms ==
    { RegistryForm(k @@ [fieldName |-> f1, name |-> n1, id |-> i1],
                   [fieldName |-> f2, name |-> n2, id |-> i2],
                   [fieldName |-> f3, name |-> n3, id |-> i3]) :
        k \in Kinds, f1 \in {NoAttr, "x"}, n1 \in Names, i1 \in {NoAttr, "x"},
        f2 \in {NoAttr, "x", "y"}, n2 \in Names, i2 \in Ids,
        f3 \in {NoAttr, "x"}, n3 \in {NoAttr, "x"}, i3 \in {NoAttr, "y"} }

InitRegistry ==
    \E form \in RegistryForms : \E lib \in {"core", "fields"} :
        /\ order = [i \in 1..Len(form) |-> i]
        /\ opts = Options0
        /\ inputElements = IF lib = "core" THEN CollectFields(form, order)
                           ELSE FieldsCollectFields(form, order)
        /\ dom = IF lib = "core" THEN form ELSE PatchRegistered(form, inputElements)
        /\ labels = IF lib = "core" THEN CollectLabels(dom, order, inputElements)
                    ELSE EmptyMap
        /\ errorContainers =
              IF lib = "core"
              THEN CollectErrorContainers(dom, order, ConnectorOptions(opts), inputElements)
              ELSE EmptyMap
        /\ validators = <<>>
        /\ rendered = EmptyMap
        /\ hist = [lib |-> lib]
        /\ last = Last0

\* connector.field(name) of the connector of part_001
RegistryField(name) ==
    /\ hist.lib = "core"
    /\ last' = With(Last0, [op |-> "connector.field", name |-> name,
                            node |-> ConnectorField(name)])
    /\ UNCHANGED <<dom, order, validators, rendered, hist, connector>>

\* form.field(name) of the connector of core/fields.ts
FieldsRegistryField(name) ==
    /\ hist.lib = "fields"
    /\ last' = With(Last0, [op |-> "fields.field", name |-> name,
                            node |-> ConnectorField(name)])
    /\ UNCHANGED <<dom, order, validators, rendered, hist, connector>>

NextRegistry ==
    \/ \E name \in {"x", "y"} : RegistryField(name)
    \/ \E name \in {"x", "y"} : FieldsRegistryField(name)

SpecRegistry == InitRegistry /\ [][NextRegistry]_vars

-----------------------------------------------------------------------------
(* Properties of the registry *)

Holder(k) == Get(inputElements, k, NoNode)
Untagged(n) == dom[n].fieldName = NoAttr
Before(m, n) == Pos(order, m) < Pos(order, n)

ExcludedInputs ==
    {n \in 1..Len(dom) : InForm(dom, n) /\ dom[n].tag = "input"
                            /\ dom[n].type \in {"submit", "reset", "button"}}

\* The controls the scan by name and id of part_001 visits and does not skip
Scanned == {n \in 1..Len(dom) : InForm(dom, n) /\ IsFormControl(dom[n]) /\ Untagged(n)}

\* The controls the scan by name of core/fields.ts visits and does not skip
NamedScanned ==
    {n \in 1..Len(dom) : InForm(dom, n) /\ IsNamedControl(dom[n]) /\ Untagged(n)}

Visited == IF hist.lib = "core" THEN Scanned ELSE NamedScanned

\* Key k is taken when the scan reaches n: an element carries it as its
\* marker, or an earlier control of the scan holds it.
Claimed(k, n) ==
    \/ \E m \in Tagged : dom[m].fieldName = k
    \/ \E m \in Visited : Before(m, n) /\ Holder(k) = m

RegisteredKeys(n) ==
    IF HasText(dom[n].name) /\ ~Claimed(dom[n].name, n) THEN {dom[n].name}
    ELSE IF HasText(dom[n].id) /\ ~Claimed(dom[n].id, n) THEN {dom[n].id}
    ELSE {}

\* C24 as stated: an input of type submit, reset or button is registered
\* neither under its name nor under its id, and every other input, textarea,
\* select and output without a marker is registered under its name if that
\* is unclaimed, else under its id if that is unclaimed.
C24_OnlyEligibleRegistered ==
    hist.lib = "core" =>
        /\ \A n \in ExcludedInputs : KeysOf(n) \cap {dom[n].name, dom[n].id} = {}
        /\ \A n \in Scanned : KeysOf(n) = RegisteredKeys(n)

\* C24: an input of type submit, reset or button is registered under no key
\* but its field-name marker, if it carries one (the marker may equal its
\* name or id); every other input, textarea, select and output without a
\* marker is registered under its name if that is unclaimed, else under its
\* id if that is unclaimed, else not at all.
C24_ScanRegistersEligible ==
    hist.lib = "core" =>
        /\ \A n \in ExcludedInputs :
              KeysOf(n) \subseteq (IF Untagged(n) THEN {} ELSE {dom[n].fieldName})
        /\ \A n \in Scanned : KeysOf(n) = RegisteredKeys(n)

\* field("x") has returned an output whose name is claimed by a marker and
\* whose id x was free
C24_Witness ==
    /\ hist.lib = "core" /\ last.op = "connector.field" /\ last.name = "x" /\ last.node = 3
    /\ dom[3].tag = "output" /\ Untagged(3) /\ dom[3].name = "y" /\ dom[3].id = "x"
    /\ dom[4].fieldName = "y"

\* The visited controls whose name is N, and the first of a set of nodes in
\* document order
SameName(N) == {n \in Visited : dom[n].name = N}
FirstOf(S) == CHOOSE n \in S : \A m \in S : ~Before(m, n)

AtMostOneKey == \A n \in 1..Len(dom) : Cardinality(KeysOf(n)) <= 1

LastMarkerKept ==
    \A n \in Tagged :
        HasText(dom[n].fieldName) =>
            KeysOf(n) = (IF LastTagged(n) THEN {dom[n].fieldName} ELSE {})

\* C30 as stated: a control has at most one key; of the controls with the
\* same marker the last is kept; of several untagged controls with the same
\* name the first is kept under that name, and a later one has no key but
\* its id, and that only if the id was unclaimed.
C30_FirstOfNameKept ==
    /\ AtMostOneKey
    /\ LastMarkerKept
    /\ \A N \in {"x", "y"} :
          Cardinality(SameName(N)) >= 2 =>
              /\ Holder(N) = FirstOf(SameName(N))
              /\ \A m \in SameName(N) \ {FirstOf(SameName(N))} :
                    /\ KeysOf(m) \subseteq {dom[m].id}
                    /\ KeysOf(m) # {} => ~Claimed(dom[m].id, m)

\* The key of a control that does not get its name: in part_001 its id if
\* that is unclaimed, in core/fields.ts none
KeysWithoutName(m) ==
    IF hist.lib = "core" /\ HasText(dom[m].id) /\ ~Claimed(dom[m].id, m)
    THEN {dom[m].id} ELSE {}

\* C30: a control has at most one key; of the controls with the same marker
\* the last is kept; of several untagged controls with the same name the
\* first is kept under that name unless a marker or an earlier control's id
\* has claimed the name; each of the others is registered under its id if
\* that is unclaimed in part_001, and not at all in core/fields.ts.
C30_OneKeyPerControl ==
    /\ AtMostOneKey
    /\ LastMarkerKept
    /\ \A N \in {"x", "y"} :
          Cardinality(SameName(N)) >= 2 =>
              \A m \in SameName(N) :
                  KeysOf(m) =
                      (IF m = FirstOf(SameName(N)) /\ ~Claimed(N, m) THEN {N}
                       ELSE KeysWithoutName(m))

\* two untagged controls are named x: field("y") has returned the second,
\* registered under its id, and the first holds x
C30_Witness ==
    /\ hist.lib = "core" /\ last.op = "connector.field" /\ last.name = "y" /\ last.node = 5
    /\ SameName("x") = {4, 5}
    /\ Holder("x") = 4

-----------------------------------------------------------------------------
(* Two engines of core/validator.ts over one control, with the same builder *)
(* chain: edits of the control and of its sibling, and validate() on either *)

\* /a/g: the expression "a" with the global flag, which makes test() start
\* at the object's lastIndex and leave the end of the match there
PatHasAGlobal == "a/g"

\* The 0-based index of the first "a" of s at or after `from`, or -1
IndexOfA(s, from) ==
    IF \E k \in (from + 1)..Len(s) : s[k] = "a"
    THEN (CHOOSE k \in (from + 1)..Len(s) :
              s[k] = "a" /\ \A j \in (from + 1)..Len(s) : s[j] = "a" => k <= j) - 1
    ELSE -1

\* regex.test(s) on the RegExp object whose lastIndex is given: whether it
\* matched, and the lastIndex it leaves
RegExpTest(regex, s, lastIndex) ==
    IF regex # PatHasAGlobal THEN [matched |-> PatternTest(regex, s), lastIndex |-> lastIndex]
    ELSE IF lastIndex > Len(s) \/ IndexOfA(s, lastIndex) = -1
    THEN [matched |-> FALSE, lastIndex |-> 0]
    ELSE [matched |-> TRUE, lastIndex |-> IndexOfA(s, lastIndex) + 1]

\* checkRule with the state of the rule's RegExp object: the error or NULL,
\* and the lastIndex the object is left with
PatternResult(rule, t) ==
    [error |-> IF t.matched THEN NULL ELSE rule.error, lastIndex |-> t.lastIndex]

CheckRuleAt(d, o, value, rule, lastIndex) ==
    IF rule.type = "pattern" /\ value.t = "string"
    THEN PatternResult(rule, RegExpTest(rule.value, value.v, lastIndex))
    ELSE [error |-> CheckRule(d, o, value, rule), lastIndex |-> lastIndex]

\* The loop of validate() over the rules from i on; `at` holds the
\* lastIndex of each rule's RegExp object
RECURSIVE RunRulesAt(_, _, _, _, _, _)
RulesStepAt(d, o, value, rules, i, at, r) ==
    IF Truthy(r.error)
    THEN [error |-> r.error, evaluated |-> i, at |-> [at EXCEPT ![i] = r.lastIndex]]
    ELSE RunRulesAt(d, o, value, rules, i + 1, [at EXCEPT ![i] = r.lastIndex])

RunRulesAt(d, o, value, rules, i, at) ==
    IF i > Len(rules) THEN [error |-> NULL, evaluated |-> Len(rules), at |-> at]
    ELSE RulesStepAt(d, o, value, rules, i, at,
                     CheckRuleAt(d, o, value, rules[i], at[i]))

\* validate(): the refreshed value, the rules, then native validity
ValidateAt(d, o, eng, value, run) ==
    ValidateResult(d[eng.element], value, run) @@ [at |-> run.at]

ValidatorValidateAt(d, o, eng, at) ==
    ValidateAt(d, o, eng, GetValue(d, o, eng.element),
               RunRulesAt(d, o, GetValue(d, o, eng.element), eng.rules, 1, at))

StrAa == <<"a", "a">>
StrB == <<"b">>

PairChains ==
    { <<Call("pattern", PatHasA, MsgPattern)>>,
      <<Call("pattern", PatHasAGlobal, MsgPattern)>>,
      <<Call("pattern", PatLetters, MsgPattern)>>,
      <<Call("email", 0, MsgEmail)>>,
      <<Call("min", 2, MsgMin)>>,
      <<Call("required", 0, MsgRequired), Call("min", 2, MsgMin)>>,
      <<Call("confirm", "p", MsgConfirm)>> }

PairControls ==
    { [tag |-> "input", type |-> "text"], [tag |-> "input", type |-> "email"],
      [tag |-> "input", type |-> "text", required |-> TRUE] }

PairValues == {<<>>, StrA, StrAa, StrB, StrAbc}

NoResult == "<none>"

InitPair ==
    \E e \in PairControls : \E chain \in PairChains :
        /\ dom = RuleForm(e)
        /\ order = <<1, 2, 3, 4>>
        /\ opts = Options0
        /\ inputElements = CollectFields(dom, order)
        /\ labels = CollectLabels(dom, order, inputElements)
        /\ errorContainers =
              CollectErrorContainers(dom, order, ConnectorOptions(opts), inputElements)
        /\ validators = <<ApplyChain(NewValidator(dom, order, 3, "a", 1), chain, 1),
                          ApplyChain(NewValidator(dom, order, 3, "a", 2), chain, 1)>>
        /\ rendered = EmptyMap
        /\ hist = [chain |-> chain,
                   implicit |-> Len(NewValidator(dom, order, 3, "a", 1).rules),
                   at |-> [i \in 1..2 |-> [k \in 1..Len(validators[i].rules) |-> 0]],
                   result |-> <<NoResult, NoResult>>]
        /\ last = Last0

\* the user edits the control
PairEdit(value) ==
    /\ dom[3].value # value
    /\ dom' = [dom EXCEPT ![3].value = value]
    /\ hist' = [hist EXCEPT !.result = <<NoResult, NoResult>>]
    /\ last' = With(Last0, [op |-> "set"])
    /\ UNCHANGED <<order, validators, rendered, connector>>

\* the user edits the sibling named p
PairEditOther(value) ==
    /\ dom[4].value # value
    /\ dom' = [dom EXCEPT ![4].value = value]
    /\ hist' = [hist EXCEPT !.result = <<NoResult, NoResult>>]
    /\ last' = With(Last0, [op |-> "set"])
    /\ UNCHANGED <<order, validators, rendered, connector>>

\* validators[i].validate(); hist.result[i] is its result for as long as the
\* two controls stay as they are
PairValidate(i) ==
    \E r \in {ValidatorValidateAt(dom, order, validators[i], hist.at[i])} :
        /\ validators' = [validators EXCEPT ![i].value = r.value]
        /\ hist' = [hist EXCEPT !.at[i] = r.at, !.result[i] = r.error]
        /\ last' = With(Last0, [op |-> "validator.validate", engine |-> i,
                                error |-> r.error, evaluated |-> r.evaluated])
        /\ UNCHANGED <<dom, order, rendered, connector>>

NextPair ==
    \/ \E value \in PairValues : PairEdit(value)
    \/ \E value \in {StrA, StrAbc} : PairEditOther(value)
    \/ \E i \in 1..2 : PairValidate(i)

SpecPair == InitPair /\ [][NextPair]_vars

-----------------------------------------------------------------------------
(* Properties of the pair of engines *)

\* C25: two engines with equal rule lists over the same control, each
\* having validated since the control and its sibling were last edited,
\* have returned the same result, whatever they validated before.
C25_NoStaleResult ==
    (hist.result[1] # NoResult /\ hist.result[2] # NoResult) =>
        hist.result[1] = hist.result[2]

\* validate() has run on a control that is not required and holds the
\* empty string
EmptyOptional ==
    /\ last.op = "validator.validate"
    /\ ~dom[3].required /\ dom[3].value = <<>>

FirstCall(b) == dom[3].type = "text" /\ hist.chain[1].b = b

\* C29: for a control that is not required and holds the empty string, the
\* Email rule, attached or derived from type=email, fails with its error,
\* and so do a Pattern rule whose expression does not match the empty
\* string and a Min(n) rule with n > 0.
C29_EmptyNotExempt ==
    EmptyOptional =>
        /\ dom[3].type = "email" => last.error = MsgEmail /\ last.evaluated = 1
        /\ FirstCall("email") => last.error = hist.chain[1].error
        /\ (FirstCall("pattern") /\ ~PatternTest(hist.chain[1].value, <<>>)) =>
              last.error = hist.chain[1].error
        /\ (FirstCall("min") /\ hist.chain[1].value > 0) =>
              last.error = hist.chain[1].error

\* the empty text control with email() has failed the Email rule
C29_Witness ==
    /\ EmptyOptional /\ FirstCall("email")
    /\ last.error = MsgEmail

-----------------------------------------------------------------------------
(* Further properties of the orchestrator *)

\* rules is rules0 with zero or more rules appended
Extends(rules, rules0) ==
    Len(rules) >= Len(rules0) /\ SubSeq(rules, 1, Len(rules0)) = rules0

\* C26: a builder call returns the engine it was called on and appends one
\* rule at the end of its list, leaving the rules before it as they were;
\* no step removes an engine, and validate(), validateField(), reset() and
\* the user's edits leave every rule list as it is.
C26_RulesAppendOnly ==
    [][ /\ Len(validators') >= Len(validators)
        /\ \A i \in 1..Len(validators) :
              /\ validators'[i].oid = validators[i].oid
              /\ Extends(validators'[i].rules, validators[i].rules)
        /\ last'.op = "attach" =>
              /\ last'.engine = hist.engine[last'.name]
              /\ \A i \in 1..Len(validators) :
                    Len(validators'[i].rules) = Len(validators[i].rules)
                        + (IF validators[i].fieldName = last'.name THEN 1 ELSE 0)
        /\ last'.op \in {"validate", "validateField", "reset", "set"} =>
              /\ Len(validators') = Len(validators)
              /\ \A i \in 1..Len(validators) : validators'[i].rules = validators[i].rules
      ]_vars

\* validate() has run over an engine that received two rules, one by one
C26_Witness ==
    /\ last.op = "validate"
    /\ EngineIndex(validators, "a") # 0
    /\ Len(validators[EngineIndex(validators, "a")].rules) = 2
    /\ validators[EngineIndex(validators, "a")].rules = hist.attached["a"]

\* An error container: an element of the class error-message, or one the
\* configured selector matches
IsErrorContainer(n) ==
    \/ "error-message" \in dom[n].cls
    \/ opts.errorContainer.k \in {".", "#"} /\ Matches(dom, n, opts.errorContainer)

\* The error containers of the document that display the text
Displaying(text) ==
    {n \in 1..Len(dom) : (\E i \in 1..Len(order) : order[i] = n)
                            /\ IsErrorContainer(n)
                            /\ dom[n].text = text /\ dom[n].display # "none"}

\* C27: after validate() every field whose entry of errors is a string has
\* that string displayed by an error container of the document, also when
\* two tracked controls have the same parent and so the same default
\* container.
C27_ErrorsDisplayed ==
    last.op = "validate" =>
        \A f \in DOMAIN last.errors :
            last.errors[f] # NULL => Displaying(last.errors[f]) # {}

\* C28: validateField(name) adds and removes no engine, changes no rule
\* list, and leaves the classes of every other tracked control as they were.
C28_ValidateFieldFrame ==
    [][ last'.op = "validateField" =>
            /\ Len(validators') = Len(validators)
            /\ \A i \in 1..Len(validators) :
                  /\ validators'[i].fieldName = validators[i].fieldName
                  /\ validators'[i].oid = validators[i].oid
                  /\ validators'[i].rules = validators[i].rules
            /\ \A f \in Tracked(validators) \ {last'.name} :
                  dom'[ConnectorField(f)].cls = dom[ConnectorField(f)].cls ]_vars

\* validateField(name) has found its field valid while another tracked
\* control carries the error class of an earlier pass
C28_Witness ==
    /\ last.op = "validateField" /\ ~last.threw /\ last.error = NULL
    /\ \E f \in Tracked(validators) \ {last.name} : ErrorClassName \in Control(f).cls
    /\ ErrorClassName \notin Control(last.name).cls

====
